---- MODULE Spec2Model ----
(***************************************************************************)
(* Model of simple-video-upscaler's frame pipeline.                        *)
(*                                                                         *)
(* The repository holds two generations of the same pipeline:              *)
(*   src/pipeline/*.rs  driven by Pipeline::execute (a loop over jobs)     *)
(*   src/stages/*.rs    driven by main.rs run_pipeline (one job)           *)
(* Both share frame.rs (Frame, the process-wide COUNT).                    *)
(*                                                                         *)
(* A channel is a sequence of items; a sender that has been dropped is a   *)
(* producer whose pc is "done", a receiver that has been dropped is a      *)
(* consumer whose pc is "done".  A try_recv that returns Empty followed by *)
(* yield_now changes nothing and is a stuttering step.                     *)
(***************************************************************************)
EXTENDS Naturals, Integers, Sequences, FiniteSets, TLC

\* ---------------------------------------------------------------- bounds
MaxFrames == 3      \* frames decoded per job in the whole-pipeline model
MaxJobs == 2        \* entries of arguments.files the driver loops over
MaxUpFrames == 3    \* frames fed to the Upscale stage in the stage-only model
MaxPngs == 4        \* PNGs in the decoder's byte stream in the byte-level model
MaxRead == 15       \* most bytes one read of the decoder's stdout returns
MaxShort == 1       \* length-level model: a full read returns CHUNK_SIZE - 0..MaxShort bytes

\* ------------------------------------------------------- program constants
MAX_JOBS == 4
Workers == 1..MAX_JOBS

Images == {"X", "Y"}

\* arguments.rs Default for Arguments: no width, no height (0 stands for
\* None), model "realesrgan", no files
ArgumentsDefault == [model |-> "realesrgan", width |-> 0, height |-> 0, files |-> <<>>]

\* video.rs Video::new, the struct before the metadata is fetched: scale 2,
\* no model (Option<Model>'s None, which has no scale), width and height 0
NoModel == [name |-> "None", scale |-> 0]
VideoUnset == [scale |-> 2, width |-> 0, height |-> 0, model |-> NoModel]

\* the duplicates values of the frames fed to a stage modelled on its own: a
\* frame that stands for itself and a frame that stands for a run
FedDuplicates == {0, 1}

\* ------------------------------------------------------------------ state
VARIABLES
  COUNT,             \* frame.rs static COUNT
  jobNo,             \* position of the driver in arguments.files (1-based)
  drResult,          \* "running" | "Ok" | "Err": Pipeline::execute's return
  threshold,         \* video.duplicate_threshold, in percent
  exStream,          \* images the decoder has still to deliver
  exEnd,             \* "eof" | "err": how the decoder's stream ends
  exPc, exHeld,      \* Extract thread
  ch1,               \* Extract -> FilterDuplicates, bounded(1)
  fdPc, fdPrev, fdHeld,   \* FilterDuplicates thread: previous_frame, item in send
  fdExit,            \* how process_frames left its loop: "none" | "eof" | "err" | "sendfail"
  ch2,               \* FilterDuplicates -> Upscale, bounded(1)
  wPc, wFrame,       \* Upscale workers
  processed_frames,  \* BTreeMap<usize, Frame>, as the set of its values
  next_frame_index,  \* AtomicUsize
  mutex,             \* 0 (free) or the worker that holds processed_frames' lock
  ch3,               \* Upscale -> Progress, bounded(MAX_JOBS)
  pgPc, pgHeld,      \* Progress thread
  pgPosition,        \* Progress: what the last set_position gave the bar
  pgDuplicates,      \* Progress: the running `duplicates` tally
  ch4,               \* Progress -> Merge, bounded(1)
  mgPc, mgFrame, mgLeft, mgResult,  \* Merge::process_stdin
  written,           \* what the encoder's stdin has received, one entry per PNG
  exSent, fdRecv, fdSent, upIn, upOut, mgRecv,  \* history of the current job
  feed,              \* stage-only models: items the environment still feeds
  processing,        \* stages/upscale.rs: Vec<usize> of the indices in work
  shutdown_flag,     \* stages/upscale.rs: AtomicBool
  stdout,            \* byte-level Extract: bytes the decoder has yet to deliver
  frame_buffer,      \* byte-level Extract: process_stdout's frame_buffer
  stdout_len,        \* length-level Extract: how many bytes are yet to be delivered
  frame_buffer_len,  \* length-level Extract: frame_buffer.len()
  sent,              \* per stage, the items it has sent downstream so far
  decoder,           \* the decoder child Extract spawned
  encoder,           \* the encoder child Merge spawned
  mgErr,             \* the Error inside Merge::execute's Err, "none" without one
  drErr,             \* the Error inside Pipeline::execute's Err, "none" without one
  arguments,         \* Arguments: model, width, height (0 for None) and files
  spawned,           \* entries of arguments.files whose stages were constructed
  video              \* the Video of the current turn of the driver's loop

vars == <<COUNT, jobNo, drResult, threshold, exStream, exEnd, exPc, exHeld, ch1,
          fdPc, fdPrev, fdHeld, fdExit, ch2, wPc, wFrame, processed_frames,
          next_frame_index, mutex, ch3, pgPc, pgHeld, pgPosition, pgDuplicates, ch4,
          mgPc, mgFrame, mgLeft,
          mgResult, written, exSent, fdRecv, fdSent, upIn, upOut, mgRecv, feed,
          processing, shutdown_flag, stdout, frame_buffer, stdout_len,
          frame_buffer_len, sent, decoder, encoder, mgErr, drErr, arguments,
          spawned, video>>

driverVars == <<jobNo, drResult, threshold, arguments, spawned, video>>
exVars == <<COUNT, exStream, exEnd, exPc, exHeld, exSent>>
fdVars == <<fdPc, fdPrev, fdHeld, fdExit, fdRecv, fdSent>>
upVars == <<wPc, wFrame, processed_frames, next_frame_index, mutex, upIn, upOut>>
barVars == <<pgPosition, pgDuplicates>>
pgVars == <<pgPc, pgHeld, barVars>>
mgVars == <<mgPc, mgFrame, mgLeft, mgResult, written, mgRecv>>
ioVars == <<stdout, frame_buffer>>
lenVars == <<stdout_len, frame_buffer_len>>
errVars == <<mgErr, drErr>>
auxVars == <<lenVars, sent, decoder, encoder, errVars>>
stVars == <<processing, shutdown_flag, ioVars>>

\* ---------------------------------------------------------------- helpers
NoFrame == [index |-> 0, duplicates |-> 0, image |-> "none", scaled |-> FALSE]

OkItem(f) == [ok |-> TRUE, frame |-> f, err |-> "none"]
ErrItem(e) == [ok |-> FALSE, frame |-> NoFrame, err |-> e]

\* the single-threaded stages that send on a channel, and the log of what
\* each has sent (upOut is the log of the Upscale workers)
Senders == {"extract", "filter", "progress"}
NothingSent == [s \in Senders |-> <<>>]
Log(stage, item) == [sent EXCEPT ![stage] = Append(@, item)]

SeqsUpTo(S, n) == UNION {[1..k -> S] : k \in 0..n}

RECURSIVE SumSeq(_)
SumSeq(s) == IF s = <<>> THEN 0 ELSE Head(s) + SumSeq(Tail(s))

\* Σ (duplicates + 1) over a sequence of frames
RECURSIVE Weight(_)
Weight(fs) == IF fs = <<>> THEN 0 ELSE Head(fs).duplicates + 1 + Weight(Tail(fs))

\* frame.rs Frame::new: index = COUNT.fetch_add(1), duplicates = 0
FrameNew(image, count) ==
  [index |-> count, duplicates |-> 0, image |-> image, scaled |-> FALSE]

\* an add_duplicate that forgets to count
add_duplicate_lost(f) == f

\* frame.rs Frame::add_duplicate
add_duplicate(f) == [f EXCEPT !.duplicates = @ + 1]

\* image_compare::rgb_hybrid_compare's score, in percent: identical rasters
\* score 100, different rasters of this model score 0
Score(a, b) == IF a = b THEN 100 ELSE 0

\* pipeline/filter_duplicates.rs frame_is_duplicate
frame_is_duplicate(f1, f2, th) == Score(f1.image, f2.image) >= th

\* ================================================================ driver
\* Everything a job's stages start from: fresh channels, fresh threads, the
\* Upscale barrier's next_frame_index = 0 and an empty map
\* (pipeline/upscale.rs spawn_worker_threads), with the decoder about to
\* deliver `stream` and then end as `end`.
JobStart(stream, end) ==
  /\ exStream = stream /\ exEnd = end
  /\ exHeld = <<>> /\ ch1 = <<>>
  /\ fdPc = "recv" /\ fdPrev = <<>> /\ fdHeld = <<>> /\ fdExit = "none" /\ ch2 = <<>>
  /\ wPc = [w \in Workers |-> "recv"] /\ wFrame = [w \in Workers |-> <<>>]
  /\ processed_frames = {} /\ next_frame_index = 0 /\ mutex = 0 /\ ch3 = <<>>
  /\ pgPc = "recv" /\ pgHeld = <<>> /\ ch4 = <<>>
  /\ pgPosition = 0 /\ pgDuplicates = 0
  /\ mgPc = "recv" /\ mgFrame = <<>> /\ mgLeft = 0 /\ mgResult = "none"
  /\ written = <<>>
  /\ exSent = <<>> /\ fdRecv = 0 /\ fdSent = <<>> /\ upIn = <<>> /\ upOut = <<>>
  /\ mgRecv = <<>>

\* pipeline/mod.rs Pipeline::execute, one turn of the loop after the first:
\* Merge::execute returned Ok (after its wait for the encoder) and
\* arguments.files has another entry, whose decoder and encoder are spawned.
\* COUNT is a static and is not touched.
StartJob ==
  /\ drResult = "running" /\ mgPc = "done" /\ mgResult = "Ok"
  /\ jobNo < MaxJobs
  /\ jobNo' = jobNo + 1
  /\ \E stream \in SeqsUpTo(Images, MaxFrames), end \in {"eof", "err"} :
       exStream' = stream /\ exEnd' = end
  /\ exPc' = "read" /\ exHeld' = <<>> /\ ch1' = <<>>
  /\ fdPc' = "recv" /\ fdPrev' = <<>> /\ fdHeld' = <<>> /\ fdExit' = "none"
  /\ ch2' = <<>>
  /\ wPc' = [w \in Workers |-> "recv"] /\ wFrame' = [w \in Workers |-> <<>>]
  /\ processed_frames' = {} /\ next_frame_index' = 0 /\ mutex' = 0 /\ ch3' = <<>>
  /\ pgPc' = "recv" /\ pgHeld' = <<>> /\ ch4' = <<>>
  /\ pgPosition' = 0 /\ pgDuplicates' = 0
  /\ mgPc' = "recv" /\ mgFrame' = <<>> /\ mgLeft' = 0 /\ mgResult' = "none"
  /\ written' = <<>>
  /\ exSent' = <<>> /\ fdRecv' = 0 /\ fdSent' = <<>> /\ upIn' = <<>> /\ upOut' = <<>>
  /\ mgRecv' = <<>>
  /\ sent' = NothingSent /\ decoder' = "running" /\ encoder' = "running"
  /\ mgErr' = "none"
  /\ UNCHANGED <<lenVars, drErr, COUNT, drResult, threshold, feed, stVars, arguments,
                 spawned, video>>

\* a Merge that kills its child after the wait whatever the result
MergeReapedKilled(result) == "waited_killed"

\* pipeline/merge.rs execute after process_stdin returned (stdin is dropped
\* by then): `child.wait()` lets the encoder run to its own exit and only
\* then, if the result is an Err, comes `child.kill()`
MergeReaped(result) == IF result = "Err" THEN "waited_killed" ELSE "waited"

\* Merge::execute returning (its wait, and its kill after an Err) and
\* pipeline/mod.rs Pipeline::execute returning: `?` on Merge::execute's Err,
\* or Ok(()) after the last entry of arguments.files
DriverReturn ==
  /\ drResult = "running" /\ mgPc = "done"
  /\ drResult' = mgResult
  /\ encoder' = MergeReaped(mgResult)
  /\ drErr' = mgErr
  /\ UNCHANGED <<lenVars, sent, decoder, mgErr, stVars, COUNT, jobNo, threshold, arguments,
                 spawned, video, feed, exStream,
                 exEnd, exPc, exHeld, exSent, ch1, fdVars, ch2, upVars, ch3, pgVars, ch4,
                 mgVars>>

\* ============================================================== Extract
\* pipeline/extract.rs process_stdout, the call of process_chunk, at the
\* level of whole frames: the decoder delivers the next image (Frame::new
\* draws its index from COUNT), reaches EOF (Ok(None)), or fails (Err).
ExtractDecode ==
  /\ exPc = "read"
  /\ \/ /\ exStream # <<>>
        /\ exHeld' = <<OkItem(FrameNew(Head(exStream), COUNT))>>
        /\ COUNT' = COUNT + 1
        /\ exStream' = Tail(exStream)
        /\ exPc' = "send"
     \/ /\ exStream = <<>> /\ exEnd = "err"
        /\ exHeld' = <<ErrItem("extract")>>
        /\ exPc' = "send"
        /\ UNCHANGED <<COUNT, exStream>>
     \/ /\ exStream = <<>> /\ exEnd = "eof"
        /\ exPc' = "done"
        /\ UNCHANGED <<COUNT, exStream, exHeld>>
  /\ UNCHANGED <<auxVars, stVars, driverVars, feed, exEnd, exSent, ch1, fdVars, ch2, upVars, ch3,
                 pgVars, ch4, mgVars>>

\* pipeline/extract.rs process_stdout, sender.send on the bounded(1) channel
ExtractSend ==
  /\ exPc = "send"
  /\ \/ /\ fdPc # "done" /\ ch1 = <<>>
        /\ ch1' = exHeld
        /\ exSent' = IF exHeld[1].ok THEN Append(exSent, exHeld[1].frame) ELSE exSent
        /\ sent' = Log("extract", exHeld[1])
        /\ exPc' = IF exHeld[1].ok THEN "read" ELSE "done"
     \/ /\ fdPc = "done"
        /\ exPc' = "done"
        /\ UNCHANGED <<ch1, exSent, sent>>
  /\ exHeld' = <<>>
  /\ UNCHANGED <<errVars, lenVars, decoder, encoder, stVars, driverVars, feed, COUNT, exStream, exEnd, fdVars, ch2, upVars,
                 ch3, pgVars, ch4, mgVars>>

\* pipeline/extract.rs execute, the thread after process_stdout returned (the
\* sender is dropped by then): `child.kill()` and `child.wait()`
ExtractReap ==
  /\ exPc = "done" /\ decoder = "running"
  /\ decoder' = "killed_waited"
  /\ UNCHANGED <<errVars, lenVars, sent, encoder, stVars, driverVars, feed, exVars, ch1, fdVars, ch2,
                 upVars, ch3, pgVars, ch4, mgVars>>

\* ====================================================== FilterDuplicates
\* a filter_frame that keeps the newer frame of a duplicate pair and drops the
\* held one with its count
filter_frame_keep_new(previous_frame, frame, th) ==
  IF previous_frame # <<>>
  THEN IF frame_is_duplicate(previous_frame[1], frame, th)
       THEN [previous |-> <<frame>>, out |-> <<>>]
       ELSE [previous |-> <<frame>>, out |-> <<previous_frame[1]>>]
  ELSE [previous |-> <<frame>>, out |-> <<>>]

\* pipeline/filter_duplicates.rs filter_frame: the new previous_frame and the
\* frame returned (<<>> for None)
filter_frame(previous_frame, frame, th) ==
  IF previous_frame # <<>>
  THEN IF frame_is_duplicate(previous_frame[1], frame, th)
       THEN [previous |-> <<add_duplicate(previous_frame[1])>>, out |-> <<>>]
       ELSE [previous |-> <<frame>>, out |-> <<previous_frame[1]>>]
  ELSE [previous |-> <<frame>>, out |-> <<>>]

\* pipeline/filter_duplicates.rs process_frames, one try_recv that is not Empty
FilterRecv ==
  /\ fdPc = "recv"
  /\ \/ /\ ch1 # <<>> /\ ch1[1].ok
        /\ LET r == filter_frame(fdPrev, ch1[1].frame, threshold) IN
             /\ fdPrev' = r.previous
             /\ fdHeld' = IF r.out = <<>> THEN <<>> ELSE <<OkItem(r.out[1])>>
             /\ fdPc' = IF r.out = <<>> THEN "recv" ELSE "send"
        /\ fdRecv' = fdRecv + 1
        /\ ch1' = Tail(ch1)
        /\ UNCHANGED fdExit
     \/ /\ ch1 # <<>> /\ ~ch1[1].ok
        /\ fdHeld' = <<ch1[1]>>
        /\ fdPc' = "last"
        /\ fdExit' = "err"
        /\ ch1' = Tail(ch1)
        /\ UNCHANGED <<fdPrev, fdRecv>>
     \/ /\ ch1 = <<>> /\ exPc = "done"
        /\ IF fdPrev # <<>>
           THEN fdHeld' = <<OkItem(fdPrev[1])>> /\ fdPrev' = <<>> /\ fdPc' = "last"
           ELSE fdPc' = "done" /\ UNCHANGED <<fdPrev, fdHeld>>
        /\ fdExit' = "eof"
        /\ UNCHANGED <<ch1, fdRecv>>
  /\ UNCHANGED <<auxVars, stVars, driverVars, feed, exVars, fdSent, ch2, upVars, ch3, pgVars, ch4,
                 mgVars>>

\* pipeline/filter_duplicates.rs process_frames, sender.send on bounded(1);
\* "last" is the send of an Err or of the held frame at Disconnected, after
\* which the loop breaks
FilterSend ==
  /\ fdPc \in {"send", "last"}
  /\ \/ /\ \E w \in Workers : wPc[w] # "done"
        /\ ch2 = <<>>
        /\ ch2' = fdHeld
        /\ fdSent' = IF fdHeld[1].ok THEN Append(fdSent, fdHeld[1].frame) ELSE fdSent
        /\ sent' = Log("filter", fdHeld[1])
        /\ fdPc' = IF fdPc = "send" THEN "recv" ELSE "done"
        /\ UNCHANGED fdExit
     \/ /\ \A w \in Workers : wPc[w] = "done"
        /\ fdPc' = "done"
        /\ fdExit' = "sendfail"
        /\ UNCHANGED <<ch2, fdSent, sent>>
  /\ fdHeld' = <<>>
  /\ UNCHANGED <<errVars, lenVars, decoder, encoder, stVars, driverVars, feed, exVars, ch1, fdPrev, fdRecv, upVars, ch3,
                 pgVars, ch4, mgVars>>

\* ====================================================== Upscale (pipeline)
\* BTreeMap::insert: an entry with the same key is replaced
MapInsert(map, f) == {g \in map : g.index # f.index} \cup {f}

\* a lookup that ignores the key and takes the lowest entry of the map
MapGetFirst(map, key) == {g \in map : \A h \in map : g.index <= h.index}

\* BTreeMap::remove(&key) as a lookup: the entries with that key (none or one)
MapGet(map, key) == {g \in map : g.index = key}

\* an upscale that builds its result from the image alone
process_frame_fresh(f) == [f EXCEPT !.scaled = TRUE, !.duplicates = 0]

\* pipeline/upscale.rs process_frame on success: only the image is replaced
process_frame(f) == [f EXCEPT !.scaled = TRUE]

\* a barrier that advances by one per frame sent
NextIndexPlusOne(nfi, f) == nfi + 1

\* next_frame_index.fetch_add(1 + duplicates)
NextIndexAfter(nfi, f) == nfi + 1 + f.duplicates

\* the receivers of ch2 are the workers' clones; the senders of ch3 likewise
WorkersAlive == \E w \in Workers : wPc[w] # "done"

\* The workers run the same code on clones of the same handles, and a worker
\* parked in recv holds nothing: which of the parked workers a recv wakes makes
\* no difference but the worker's number.  The model wakes the lowest-numbered
\* one (a symmetry reduction; every interleaving is kept up to renaming workers).
Parked(w) == wPc[w] = "recv" /\ \A v \in Workers : wPc[v] = "recv" => w <= v

\* a worker that takes the lock of processed_frames before it calls
\* process_frame
LockedAtCall(lock, w) == w

\* pipeline/upscale.rs process_incoming_frames, the call of process_frame
\* (line 119): the lock of processed_frames is not touched before line 128
LockAtCall(lock, w) == lock

\* pipeline/upscale.rs process_incoming_frames: receiver.recv() and, for an
\* Ok frame, the call of process_frame
WorkerRecv(w) ==
  /\ Parked(w)
  /\ \/ /\ ch2 # <<>> /\ ch2[1].ok
        /\ wFrame' = [wFrame EXCEPT ![w] = <<ch2[1]>>]
        /\ wPc' = [wPc EXCEPT ![w] = "upscale"]
        /\ upIn' = Append(upIn, ch2[1].frame)
        /\ mutex' = LockAtCall(mutex, w)
        /\ ch2' = Tail(ch2)
     \/ /\ ch2 # <<>> /\ ~ch2[1].ok
        /\ wFrame' = [wFrame EXCEPT ![w] = <<ch2[1]>>]
        /\ wPc' = [wPc EXCEPT ![w] = "senderr"]
        /\ ch2' = Tail(ch2)
        /\ UNCHANGED <<upIn, mutex>>
     \/ /\ ch2 = <<>> /\ fdPc = "done"
        /\ wPc' = [wPc EXCEPT ![w] = "done"]
        /\ UNCHANGED <<wFrame, upIn, ch2, mutex>>
  /\ UNCHANGED <<auxVars, stVars, driverVars, feed, exVars, ch1, fdVars, processed_frames,
                 next_frame_index, upOut, ch3, pgVars, ch4, mgVars>>

\* pipeline/upscale.rs process_incoming_frames: process_frame returns, then
\* on Ok the worker takes the lock and inserts; on Err it goes to send the Err
WorkerUpscale(w) ==
  /\ wPc[w] = "upscale"
  /\ \/ /\ mutex = 0
        /\ mutex' = w
        /\ processed_frames' = MapInsert(processed_frames, process_frame(wFrame[w][1].frame))
        /\ wFrame' = [wFrame EXCEPT ![w] = <<>>]
        /\ wPc' = [wPc EXCEPT ![w] = "locked"]
     \/ /\ wFrame' = [wFrame EXCEPT ![w] = <<ErrItem("upscale")>>]
        /\ wPc' = [wPc EXCEPT ![w] = "senderr"]
        /\ UNCHANGED <<mutex, processed_frames>>
  /\ UNCHANGED <<auxVars, stVars, driverVars, feed, exVars, ch1, fdVars, ch2, next_frame_index,
                 upIn, upOut, ch3, pgVars, ch4, mgVars>>

\* a guard that outlives the block: the lock stays with worker w
GuardKept(w) == w

\* pipeline/upscale.rs process_incoming_frames: the MutexGuard of
\* processed_frames is dropped at the end of the Ok(frame) arm, which frees the
\* lock
GuardDropped(w) == 0

\* pipeline/upscale.rs send_processed_frames, one turn of its loop, run with
\* the lock held; the lock is released when the loop ends or a send fails
WorkerDrain(w) ==
  /\ wPc[w] = "locked"
  /\ LET hit == MapGet(processed_frames, next_frame_index) IN
     \/ /\ hit # {} /\ pgPc # "done" /\ Len(ch3) < MAX_JOBS
        /\ \E f \in hit :
             /\ processed_frames' = processed_frames \ {f}
             /\ ch3' = Append(ch3, OkItem(f))
             /\ upOut' = Append(upOut, OkItem(f))
             /\ next_frame_index' = NextIndexAfter(next_frame_index, f)
        /\ UNCHANGED <<mutex, wPc>>
     \/ /\ hit # {} /\ pgPc = "done"
        /\ processed_frames' = processed_frames \ hit
        /\ mutex' = GuardDropped(w)
        /\ wPc' = [wPc EXCEPT ![w] = "recv"]
        /\ UNCHANGED <<ch3, upOut, next_frame_index>>
     \/ /\ hit = {}
        /\ mutex' = GuardDropped(w)
        /\ wPc' = [wPc EXCEPT ![w] = "recv"]
        /\ UNCHANGED <<processed_frames, ch3, upOut, next_frame_index>>
  /\ UNCHANGED <<auxVars, stVars, driverVars, feed, exVars, ch1, fdVars, ch2, wFrame, upIn,
                 pgVars, ch4, mgVars>>

\* pipeline/upscale.rs process_incoming_frames: `let _ = sender.send(Err(e));
\* return;` for an Err received or an Err of process_frame
WorkerSendErr(w) ==
  /\ wPc[w] = "senderr"
  /\ \/ /\ pgPc # "done" /\ Len(ch3) < MAX_JOBS
        /\ ch3' = Append(ch3, wFrame[w][1])
        /\ upOut' = Append(upOut, wFrame[w][1])
     \/ /\ pgPc = "done"
        /\ UNCHANGED <<ch3, upOut>>
  /\ wFrame' = [wFrame EXCEPT ![w] = <<>>]
  /\ wPc' = [wPc EXCEPT ![w] = "done"]
  /\ UNCHANGED <<auxVars, stVars, driverVars, feed, exVars, ch1, fdVars, ch2, processed_frames,
                 next_frame_index, mutex, upIn, pgVars, ch4, mgVars>>

\* ============================================================== Progress
\* pipeline/progress.rs process_incoming_frames:
\* `let position = frame.index + frame.duplicates`
PositionOf(frame) == frame.index + frame.duplicates

\* pipeline/progress.rs process_incoming_frames:
\* `duplicates += frame.duplicates`
TallyAfter(tally, frame) == tally + frame.duplicates

\* pipeline/progress.rs process_incoming_frames, one try_recv that is not Empty
ProgressRecv ==
  /\ pgPc = "recv"
  /\ \/ /\ ch3 # <<>>
        /\ pgHeld' = <<ch3[1]>>
        /\ pgPc' = IF ch3[1].ok THEN "send" ELSE "last"
        /\ pgDuplicates' = IF ch3[1].ok THEN TallyAfter(pgDuplicates, ch3[1].frame)
                           ELSE pgDuplicates
        /\ ch3' = Tail(ch3)
     \/ /\ ch3 = <<>> /\ ~WorkersAlive
        /\ pgPc' = "done"
        /\ UNCHANGED <<pgHeld, pgDuplicates, ch3>>
  /\ UNCHANGED pgPosition
  /\ UNCHANGED <<auxVars, stVars, driverVars, feed, exVars, ch1, fdVars, ch2, upVars, ch4, mgVars>>

\* pipeline/progress.rs process_incoming_frames, sender.send on bounded(1)
\* and, after the send of a frame, update_progress with the position computed
\* from that frame.  The closing progress_bar.finish() is the bar's own doing
\* and is not part of pgPosition.
ProgressSend ==
  /\ pgPc \in {"send", "last"}
  /\ \/ /\ mgPc # "done" /\ ch4 = <<>>
        /\ ch4' = pgHeld
        /\ sent' = Log("progress", pgHeld[1])
        /\ pgPc' = IF pgPc = "send" THEN "recv" ELSE "done"
        /\ pgPosition' = IF pgHeld[1].ok THEN PositionOf(pgHeld[1].frame) ELSE pgPosition
     \/ /\ mgPc = "done"
        /\ pgPc' = "done"
        /\ UNCHANGED <<ch4, sent, pgPosition>>
  /\ pgHeld' = <<>>
  /\ UNCHANGED pgDuplicates
  /\ UNCHANGED <<errVars, lenVars, decoder, encoder, stVars, driverVars, feed, exVars, ch1, fdVars, ch2, upVars, ch3, mgVars>>

\* ================================================================= Merge
\* what one write_all of a frame's PNG bytes adds to the encoder's stdin
PngOf(f) == [index |-> f.index, image |-> f.image, scaled |-> f.scaled]

\* the loop bound of stages/merge.rs, `0..frame.duplicates`
MergeCopiesShort(f) == f.duplicates

\* pipeline/merge.rs process_stdin: the number of write_all calls per frame,
\* `for _ in 0..(frame.duplicates + 1)`
MergeCopies(f) == f.duplicates + 1

\* a variant that reports every failure as the failure of a write
ErrorOfWrite(item) == "write"

\* pipeline/merge.rs process_stdin, `Ok(Err(e)) => return Err(e)`: the Error
\* returned is the one received
ErrorOf(item) == item.err

\* pipeline/merge.rs process_stdin, one try_recv that is not Empty
MergeRecv ==
  /\ mgPc = "recv"
  /\ \/ /\ ch4 # <<>> /\ ch4[1].ok
        /\ mgFrame' = <<ch4[1].frame>>
        /\ mgLeft' = MergeCopies(ch4[1].frame)
        /\ mgRecv' = Append(mgRecv, ch4[1].frame)
        /\ mgPc' = "write"
        /\ ch4' = Tail(ch4)
        /\ UNCHANGED <<mgResult, mgErr>>
     \/ /\ ch4 # <<>> /\ ~ch4[1].ok
        /\ mgResult' = "Err"
        /\ mgErr' = ErrorOf(ch4[1])
        /\ mgPc' = "done"
        /\ ch4' = Tail(ch4)
        /\ UNCHANGED <<mgFrame, mgLeft, mgRecv>>
     \/ /\ ch4 = <<>> /\ pgPc = "done"
        /\ mgResult' = "Ok"
        /\ mgPc' = "done"
        /\ UNCHANGED <<mgFrame, mgLeft, mgRecv, ch4, mgErr>>
  /\ UNCHANGED <<lenVars, sent, decoder, encoder, drErr, stVars, driverVars, feed, exVars, ch1, fdVars, ch2, upVars, ch3, pgVars,
                 written>>

\* pipeline/merge.rs process_stdin, one stdin.write_all of the loop: it
\* succeeds, or its Err is returned through `?`
MergeWrite ==
  /\ mgPc = "write"
  /\ \/ /\ written' = Append(written, PngOf(mgFrame[1]))
        /\ mgLeft' = mgLeft - 1
        /\ IF mgLeft = 1
           THEN mgPc' = "recv" /\ mgFrame' = <<>>
           ELSE UNCHANGED <<mgPc, mgFrame>>
        /\ UNCHANGED <<mgResult, mgErr>>
     \/ /\ mgResult' = "Err"
        /\ mgErr' = "write"
        /\ mgPc' = "done"
        /\ UNCHANGED <<written, mgLeft, mgFrame>>
  /\ UNCHANGED <<lenVars, sent, decoder, encoder, drErr, stVars, driverVars, feed, exVars, ch1, fdVars, ch2, upVars, ch3, pgVars,
                 ch4, mgRecv>>

\* ===================================================== whole pipeline spec
Init ==
  /\ COUNT = 0 /\ jobNo = 1 /\ drResult = "running" /\ threshold = 100
  /\ arguments = ArgumentsDefault /\ spawned = {} /\ video = VideoUnset
  /\ feed = <<>> /\ processing = {} /\ shutdown_flag = FALSE
  /\ stdout = <<>> /\ frame_buffer = <<>>
  /\ stdout_len = 0 /\ frame_buffer_len = 0
  /\ sent = NothingSent /\ decoder = "running" /\ encoder = "running"
  /\ mgErr = "none" /\ drErr = "none"
  /\ exPc = "read"
  /\ \E stream \in SeqsUpTo(Images, MaxFrames), end \in {"eof", "err"} :
       JobStart(stream, end)

Next ==
  \/ StartJob
  \/ DriverReturn
  \/ ExtractDecode
  \/ ExtractSend
  \/ FilterRecv
  \/ FilterSend
  \/ \E w \in Workers : WorkerRecv(w)
  \/ \E w \in Workers : WorkerUpscale(w)
  \/ \E w \in Workers : WorkerDrain(w)
  \/ \E w \in Workers : WorkerSendErr(w)
  \/ ProgressRecv
  \/ ProgressSend
  \/ MergeRecv
  \/ MergeWrite

\* The thread of Extract stops short of its kill and wait here: that step
\* writes `decoder` only, which no action reads, and SpecLifetime has it.
Spec == Init /\ [][Next]_vars

\* ------------------------------------------- one job, with fair scheduling
\* arguments.files has one entry, whose decoder delivers up to MaxFairFrames
\* frames
MaxFairFrames == 2

InitOneJob ==
  /\ COUNT = 0 /\ jobNo = 1 /\ drResult = "running" /\ threshold = 100
  /\ arguments = ArgumentsDefault /\ spawned = {} /\ video = VideoUnset
  /\ feed = <<>> /\ processing = {} /\ shutdown_flag = FALSE
  /\ stdout = <<>> /\ frame_buffer = <<>>
  /\ stdout_len = 0 /\ frame_buffer_len = 0
  /\ sent = NothingSent /\ decoder = "running" /\ encoder = "running"
  /\ mgErr = "none" /\ drErr = "none"
  /\ exPc = "read"
  /\ \E stream \in SeqsUpTo(Images, MaxFairFrames), end \in {"eof", "err"} :
       JobStart(stream, end)

NextOneJob ==
  \/ DriverReturn
  \/ ExtractDecode
  \/ ExtractSend
  \/ FilterRecv
  \/ FilterSend
  \/ \E w \in Workers : WorkerRecv(w)
  \/ \E w \in Workers : WorkerUpscale(w)
  \/ \E w \in Workers : WorkerDrain(w)
  \/ \E w \in Workers : WorkerSendErr(w)
  \/ ProgressRecv
  \/ ProgressSend
  \/ MergeRecv
  \/ MergeWrite

\* a step in which the upscaler fails on a frame (process_image returns Err)
UpscaleFails == \E w \in Workers : wPc[w] = "upscale" /\ wPc'[w] = "senderr"

\* a step in which a write to the encoder's stdin fails
WriteFails == mgPc = "write" /\ mgPc' = "done"

\* a step of some thread in which neither the upscaler nor the encoder's
\* stdin fails
OneJobStep == NextOneJob /\ ~UpscaleFails /\ ~WriteFails

\* The stages are threads and the driver is the main thread: the operating
\* system keeps running some thread that can take a step.  Nothing obliges
\* the upscaler or the encoder's stdin to fail.
SpecOneJobFair == InitOneJob /\ [][NextOneJob]_vars /\ WF_vars(OneJobStep)

\* the whole pipeline with the end of Extract's thread
NextLifetime ==
  \/ Next
  \/ ExtractReap

SpecLifetime == Init /\ [][NextLifetime]_vars

\* ================================================= Upscale stage on its own
\* The frames FilterDuplicates hands to Upscale in a first job: indices start
\* at 0 and each next index is the previous index + 1 + previous duplicates
RECURSIVE FeedFrames(_, _)
FeedFrames(ds, index) ==
  IF ds = <<>> THEN <<>>
  ELSE <<OkItem([index |-> index, duplicates |-> Head(ds), image |-> "X",
                 scaled |-> FALSE])>>
       \o FeedFrames(Tail(ds), index + 1 + Head(ds))

\* the upstream sender: a send on the bounded(1) channel, which fails once
\* every worker has dropped its receiver
Feed ==
  /\ fdPc # "done" /\ feed # <<>>
  /\ \/ /\ WorkersAlive /\ ch2 = <<>>
        /\ ch2' = <<Head(feed)>>
        /\ feed' = Tail(feed)
        /\ UNCHANGED fdPc
     \/ /\ ~WorkersAlive
        /\ fdPc' = "done"
        /\ UNCHANGED <<ch2, feed>>
  /\ UNCHANGED <<auxVars, stVars, driverVars, exVars, ch1, fdPrev, fdHeld, fdExit, fdRecv, fdSent,
                 upVars, ch3, pgVars, ch4, mgVars>>

\* the upstream sender is dropped after its last item
FeedClose ==
  /\ fdPc # "done" /\ feed = <<>>
  /\ fdPc' = "done"
  /\ UNCHANGED <<auxVars, stVars, driverVars, feed, exVars, ch1, fdPrev, fdHeld, fdExit, fdRecv,
                 fdSent, ch2, upVars, ch3, pgVars, ch4, mgVars>>

\* the downstream receiver takes an item
Consume ==
  /\ pgPc # "done" /\ ch3 # <<>>
  /\ ch3' = Tail(ch3)
  /\ UNCHANGED <<auxVars, stVars, driverVars, feed, exVars, ch1, fdVars, ch2, upVars, pgVars, ch4,
                 mgVars>>

\* the downstream receiver is dropped (Progress left its loop)
ConsumerDrop ==
  /\ pgPc # "done"
  /\ pgPc' = "done"
  /\ UNCHANGED <<auxVars, stVars, driverVars, feed, exVars, ch1, fdVars, ch2, upVars, ch3, pgHeld, barVars,
                 ch4, mgVars>>

InitUpscale ==
  /\ COUNT = 0 /\ jobNo = 1 /\ drResult = "running" /\ threshold = 100
  /\ arguments = ArgumentsDefault /\ spawned = {} /\ video = VideoUnset
  /\ JobStart(<<>>, "eof")
  /\ processing = {} /\ shutdown_flag = FALSE
  /\ stdout = <<>> /\ frame_buffer = <<>>
  /\ stdout_len = 0 /\ frame_buffer_len = 0
  /\ sent = NothingSent /\ decoder = "running" /\ encoder = "running"
  /\ mgErr = "none" /\ drErr = "none"
  /\ exPc = "read"
  /\ \E ds \in SeqsUpTo(FedDuplicates, MaxUpFrames), end \in {"eof", "err"} :
       feed = FeedFrames(ds, 0) \o (IF end = "err" THEN <<ErrItem("upstream")>> ELSE <<>>)

NextUpscale ==
  \/ Feed
  \/ FeedClose
  \/ \E w \in Workers : WorkerRecv(w)
  \/ \E w \in Workers : WorkerUpscale(w)
  \/ \E w \in Workers : WorkerDrain(w)
  \/ \E w \in Workers : WorkerSendErr(w)
  \/ Consume
  \/ ConsumerDrop

SpecUpscaleP == InitUpscale /\ [][NextUpscale]_vars

\* the Upscale stage fed one frame more than it has workers and its
\* downstream channel has slots, none of them standing for a run, and then
\* the end of the stream or an Err
InitUpscaleBusy ==
  /\ COUNT = 0 /\ jobNo = 1 /\ drResult = "running" /\ threshold = 100
  /\ arguments = ArgumentsDefault /\ spawned = {} /\ video = VideoUnset
  /\ JobStart(<<>>, "eof")
  /\ processing = {} /\ shutdown_flag = FALSE
  /\ stdout = <<>> /\ frame_buffer = <<>>
  /\ stdout_len = 0 /\ frame_buffer_len = 0
  /\ sent = NothingSent /\ decoder = "running" /\ encoder = "running"
  /\ mgErr = "none" /\ drErr = "none"
  /\ exPc = "read"
  /\ \E end \in {"eof", "err"} :
       feed = FeedFrames([i \in 1..(MAX_JOBS + 1) |-> 0], 0)
                \o (IF end = "err" THEN <<ErrItem("upstream")>> ELSE <<>>)

SpecUpscaleBusy == InitUpscaleBusy /\ [][NextUpscale]_vars

\* ------------------------------------- Upscale stage with one slow upscale
\* process_image is a call into the upscaler and returns when the upscaler is
\* done.  In the runs below the call on the frame of index 0 has not returned
\* yet, while the calls on the later frames return (relative speeds of the
\* workers are free in the program; these runs are some of its runs).
MaxBurst == 10

\* worker w is inside process_image on the frame of index 0
FirstFramePending(w) ==
  wFrame[w] # <<>> /\ wFrame[w][1].ok /\ wFrame[w][1].frame.index = 0

\* process_frame returns for a worker that is not on the frame of index 0
WorkerUpscaleLater(w) == ~FirstFramePending(w) /\ WorkerUpscale(w)

\* FilterDuplicates hands over up to MaxBurst frames without duplicates
InitStall ==
  /\ COUNT = 0 /\ jobNo = 1 /\ drResult = "running" /\ threshold = 100
  /\ arguments = ArgumentsDefault /\ spawned = {} /\ video = VideoUnset
  /\ JobStart(<<>>, "eof")
  /\ processing = {} /\ shutdown_flag = FALSE
  /\ stdout = <<>> /\ frame_buffer = <<>>
  /\ stdout_len = 0 /\ frame_buffer_len = 0
  /\ sent = NothingSent /\ decoder = "running" /\ encoder = "running"
  /\ mgErr = "none" /\ drErr = "none"
  /\ exPc = "read"
  /\ \E n \in 0..MaxBurst, end \in {"eof", "err"} :
       feed = FeedFrames([i \in 1..n |-> 0], 0)
              \o (IF end = "err" THEN <<ErrItem("upstream")>> ELSE <<>>)

NextStall ==
  \/ Feed
  \/ FeedClose
  \/ \E w \in Workers : WorkerRecv(w)
  \/ \E w \in Workers : WorkerUpscaleLater(w)
  \/ \E w \in Workers : WorkerDrain(w)
  \/ \E w \in Workers : WorkerSendErr(w)
  \/ Consume
  \/ ConsumerDrop

SpecStall == InitStall /\ [][NextStall]_vars

\* ============================= stages variant: Upscale stage on its own
\* (main.rs run_pipeline -> stages/upscale.rs).  Worker positions: "recv"
\* (head of the while loop), "push" (frame received, index not yet in
\* `processing`), "upscale" (inside process_image), "wait" (the loop of
\* process_frame), "send", "senderr", "done".

\* workers with the same position and the same frame are interchangeable:
\* the lowest-numbered one takes the step
Lowest(w) ==
  \A v \in Workers : (wPc[v] = wPc[w] /\ wFrame[v] = wFrame[w]) => w <= v

\* stages/upscale.rs process_frame, `*queue.iter().min().unwrap_or(&0)`
MinIndex(queue) ==
  IF queue = {} THEN 0 ELSE CHOOSE m \in queue : \A x \in queue : m <= x

\* stages/upscale.rs process_frame, `queue.retain(|&x| x != frame.index)`
Retain(queue, index) == queue \ {index}

\* the upstream sender of the stages variant: a send on the unbounded()
\* channel of stages/filter_duplicates.rs, which fails once every worker has
\* dropped its receiver
StagesFeed ==
  /\ fdPc # "done" /\ feed # <<>>
  /\ \/ /\ WorkersAlive
        /\ ch2' = Append(ch2, Head(feed))
        /\ feed' = Tail(feed)
        /\ UNCHANGED fdPc
     \/ /\ ~WorkersAlive
        /\ fdPc' = "done"
        /\ UNCHANGED <<ch2, feed>>
  /\ UNCHANGED <<auxVars, stVars, driverVars, exVars, ch1, fdPrev, fdHeld, fdExit, fdRecv, fdSent,
                 upVars, ch3, pgVars, ch4, mgVars>>

\* stages/upscale.rs process_incoming_frames: the test of the while loop and
\* one try_recv that is not Empty; every way out of the loop stores the flag
StagesWorkerRecv(w) ==
  /\ wPc[w] = "recv" /\ Lowest(w)
  /\ \/ /\ shutdown_flag
        /\ wPc' = [wPc EXCEPT ![w] = "done"]
        /\ UNCHANGED <<wFrame, ch2, upIn, shutdown_flag>>
     \/ /\ ~shutdown_flag /\ ch2 # <<>> /\ ch2[1].ok
        /\ wFrame' = [wFrame EXCEPT ![w] = <<ch2[1]>>]
        /\ wPc' = [wPc EXCEPT ![w] = "push"]
        /\ upIn' = Append(upIn, ch2[1].frame)
        /\ ch2' = Tail(ch2)
        /\ UNCHANGED shutdown_flag
     \/ /\ ~shutdown_flag /\ ch2 # <<>> /\ ~ch2[1].ok
        /\ wFrame' = [wFrame EXCEPT ![w] = <<ch2[1]>>]
        /\ wPc' = [wPc EXCEPT ![w] = "senderr"]
        /\ ch2' = Tail(ch2)
        /\ UNCHANGED <<upIn, shutdown_flag>>
     \/ /\ ~shutdown_flag /\ ch2 = <<>> /\ fdPc = "done"
        /\ wPc' = [wPc EXCEPT ![w] = "done"]
        /\ shutdown_flag' = TRUE
        /\ UNCHANGED <<wFrame, ch2, upIn>>
  /\ UNCHANGED <<auxVars, processing, ioVars, driverVars, feed, exVars, ch1, fdVars, processed_frames,
                 next_frame_index, mutex, upOut, ch3, pgVars, ch4, mgVars>>

\* stages/upscale.rs process_frame, `processing.lock().push(frame.index)`
StagesWorkerPush(w) ==
  /\ wPc[w] = "push"
  /\ processing' = processing \cup {wFrame[w][1].frame.index}
  /\ wPc' = [wPc EXCEPT ![w] = "upscale"]
  /\ UNCHANGED <<auxVars, shutdown_flag, ioVars, driverVars, feed, exVars, ch1, fdVars, ch2, wFrame,
                 processed_frames, next_frame_index, mutex, upIn, upOut, ch3, pgVars,
                 ch4, mgVars>>

\* stages/upscale.rs process_frame, model.process_image: Ok, or the Err that
\* `?` returns with the index still in `processing`
StagesWorkerUpscale(w) ==
  /\ wPc[w] = "upscale"
  /\ \/ /\ wFrame' = [wFrame EXCEPT ![w] = <<OkItem(process_frame(wFrame[w][1].frame))>>]
        /\ wPc' = [wPc EXCEPT ![w] = "wait"]
     \/ /\ wFrame' = [wFrame EXCEPT ![w] = <<ErrItem("upscale")>>]
        /\ wPc' = [wPc EXCEPT ![w] = "senderr"]
  /\ UNCHANGED <<auxVars, stVars, driverVars, feed, exVars, ch1, fdVars, ch2, processed_frames,
                 next_frame_index, mutex, upIn, upOut, ch3, pgVars, ch4, mgVars>>

\* a wait loop that never looks at the flag
ShutdownIgnored(flag) == FALSE

\* stages/upscale.rs process_frame, `self.shutdown_flag.load(Ordering::SeqCst)`
\* in the wait loop
ShutdownLoaded(flag) == flag

\* stages/upscale.rs process_frame, one turn of its loop that does not yield:
\* the frame's index is the minimum and leaves `processing`, or the flag is
\* set and the frame is given up (Ok(None), the caller breaks)
StagesWorkerWait(w) ==
  /\ wPc[w] = "wait"
  /\ \/ /\ MinIndex(processing) = wFrame[w][1].frame.index
        /\ processing' = Retain(processing, wFrame[w][1].frame.index)
        /\ wPc' = [wPc EXCEPT ![w] = "send"]
        /\ UNCHANGED <<wFrame, shutdown_flag>>
     \/ /\ MinIndex(processing) # wFrame[w][1].frame.index
        /\ ShutdownLoaded(shutdown_flag)
        /\ wPc' = [wPc EXCEPT ![w] = "done"]
        /\ wFrame' = [wFrame EXCEPT ![w] = <<>>]
        /\ UNCHANGED <<processing, shutdown_flag>>
  /\ UNCHANGED <<auxVars, ioVars, driverVars, feed, exVars, ch1, fdVars, ch2, processed_frames,
                 next_frame_index, mutex, upIn, upOut, ch3, pgVars, ch4, mgVars>>

\* stages/upscale.rs process_incoming_frames, `sender.send(Ok(processed_frame))`
\* on the bounded(1) channel of execute: it blocks while the channel is full
\* and fails, which breaks the loop, once the receiver is dropped
StagesWorkerSend(w) ==
  /\ wPc[w] = "send"
  /\ \/ /\ pgPc # "done" /\ ch3 = <<>>
        /\ ch3' = <<wFrame[w][1]>>
        /\ upOut' = Append(upOut, wFrame[w][1])
        /\ wPc' = [wPc EXCEPT ![w] = "recv"]
        /\ UNCHANGED shutdown_flag
     \/ /\ pgPc = "done"
        /\ wPc' = [wPc EXCEPT ![w] = "done"]
        /\ shutdown_flag' = TRUE
        /\ UNCHANGED <<ch3, upOut>>
  /\ wFrame' = [wFrame EXCEPT ![w] = <<>>]
  /\ UNCHANGED <<auxVars, processing, ioVars, driverVars, feed, exVars, ch1, fdVars, ch2, processed_frames,
                 next_frame_index, mutex, upIn, ch4, mgVars, pgVars>>

\* stages/upscale.rs process_incoming_frames, `let _ = sender.send(Err(e));
\* break`, then the store of the flag
StagesWorkerSendErr(w) ==
  /\ wPc[w] = "senderr" /\ Lowest(w)
  /\ \/ /\ pgPc # "done" /\ ch3 = <<>>
        /\ ch3' = <<wFrame[w][1]>>
        /\ upOut' = Append(upOut, wFrame[w][1])
     \/ /\ pgPc = "done"
        /\ UNCHANGED <<ch3, upOut>>
  /\ wPc' = [wPc EXCEPT ![w] = "done"]
  /\ wFrame' = [wFrame EXCEPT ![w] = <<>>]
  /\ shutdown_flag' = TRUE
  /\ UNCHANGED <<auxVars, processing, ioVars, driverVars, feed, exVars, ch1, fdVars, ch2, processed_frames,
                 next_frame_index, mutex, upIn, ch4, mgVars, pgVars>>

NextStagesUpscale ==
  \/ StagesFeed
  \/ FeedClose
  \/ \E w \in Workers : StagesWorkerRecv(w)
  \/ \E w \in Workers : StagesWorkerPush(w)
  \/ \E w \in Workers : StagesWorkerUpscale(w)
  \/ \E w \in Workers : StagesWorkerWait(w)
  \/ \E w \in Workers : StagesWorkerSend(w)
  \/ \E w \in Workers : StagesWorkerSendErr(w)
  \/ Consume
  \/ ConsumerDrop

SpecStagesUpscale == InitUpscale /\ [][NextStagesUpscale]_vars

\* the stages variant Upscale with fair scheduling: the workers and the
\* threads around them are run by the operating system, which keeps running
\* some thread that can take a step; nothing obliges the upscaler to fail or
\* the downstream receiver to go away.  Up to MaxFairFrames frames without
\* duplicates are fed.
InitStagesFair ==
  /\ COUNT = 0 /\ jobNo = 1 /\ drResult = "running" /\ threshold = 100
  /\ arguments = ArgumentsDefault /\ spawned = {} /\ video = VideoUnset
  /\ JobStart(<<>>, "eof")
  /\ processing = {} /\ shutdown_flag = FALSE
  /\ stdout = <<>> /\ frame_buffer = <<>>
  /\ stdout_len = 0 /\ frame_buffer_len = 0
  /\ sent = NothingSent /\ decoder = "running" /\ encoder = "running"
  /\ mgErr = "none" /\ drErr = "none"
  /\ exPc = "read"
  /\ \E n \in 0..MaxFairFrames, end \in {"eof", "err"} :
       feed = FeedFrames([i \in 1..n |-> 0], 0)
              \o (IF end = "err" THEN <<ErrItem("upstream")>> ELSE <<>>)

\* a step in which the downstream receiver is dropped
ReceiverDropped == pgPc # "done" /\ pgPc' = "done"

\* a step of some thread in which the upscaler does not fail and the
\* downstream receiver stays
StagesUpscaleStep == NextStagesUpscale /\ ~UpscaleFails /\ ~ReceiverDropped

SpecStagesUpscaleFair ==
  InitStagesFair /\ [][NextStagesUpscale]_vars /\ WF_vars(StagesUpscaleStep)

\* =============================== stages variant: Merge stage on its own
\* (main.rs run_pipeline -> stages/merge.rs)

\* stages/merge.rs process_stdin: the number of write_all calls per frame,
\* `for _ in 0..frame.duplicates`
StagesMergeCopies(f) == f.duplicates

\* the upstream sender of Merge: a send on the bounded(1) channel, which
\* fails once Merge has dropped its receiver
MergeFeed ==
  /\ pgPc # "done" /\ feed # <<>>
  /\ \/ /\ mgPc # "done" /\ ch4 = <<>>
        /\ ch4' = <<Head(feed)>>
        /\ feed' = Tail(feed)
        /\ UNCHANGED pgPc
     \/ /\ mgPc = "done"
        /\ pgPc' = "done"
        /\ UNCHANGED <<ch4, feed>>
  /\ UNCHANGED <<auxVars, stVars, driverVars, exVars, ch1, fdVars, ch2, upVars, ch3, pgHeld, barVars,
                 mgVars>>

\* the upstream sender of Merge is dropped after its last item
MergeFeedClose ==
  /\ pgPc # "done" /\ feed = <<>>
  /\ pgPc' = "done"
  /\ UNCHANGED <<auxVars, stVars, driverVars, feed, exVars, ch1, fdVars, ch2, upVars, ch3, pgHeld, barVars,
                 ch4, mgVars>>

\* stages/merge.rs process_stdin, one try_recv that is not Empty; a frame
\* whose loop has no turn leaves Merge at its try_recv
StagesMergeRecv ==
  /\ mgPc = "recv"
  /\ \/ /\ ch4 # <<>> /\ ch4[1].ok
        /\ mgRecv' = Append(mgRecv, ch4[1].frame)
        /\ mgLeft' = StagesMergeCopies(ch4[1].frame)
        /\ IF StagesMergeCopies(ch4[1].frame) = 0
           THEN mgPc' = "recv" /\ mgFrame' = <<>>
           ELSE mgPc' = "write" /\ mgFrame' = <<ch4[1].frame>>
        /\ ch4' = Tail(ch4)
        /\ UNCHANGED <<mgResult, mgErr>>
     \/ /\ ch4 # <<>> /\ ~ch4[1].ok
        /\ mgResult' = "Err"
        /\ mgErr' = ch4[1].err
        /\ mgPc' = "done"
        /\ ch4' = Tail(ch4)
        /\ UNCHANGED <<mgFrame, mgLeft, mgRecv>>
     \/ /\ ch4 = <<>> /\ pgPc = "done"
        /\ mgResult' = "Ok"
        /\ mgPc' = "done"
        /\ UNCHANGED <<mgFrame, mgLeft, mgRecv, ch4, mgErr>>
  /\ UNCHANGED <<lenVars, sent, decoder, encoder, drErr, stVars, driverVars, feed, exVars, ch1, fdVars, ch2, upVars, ch3, pgVars,
                 written>>

\* stages/merge.rs process_stdin, one stdin.write_all of the loop: it
\* succeeds, or its Err is returned through `?`
StagesMergeWrite ==
  /\ mgPc = "write"
  /\ \/ /\ written' = Append(written, PngOf(mgFrame[1]))
        /\ mgLeft' = mgLeft - 1
        /\ IF mgLeft = 1
           THEN mgPc' = "recv" /\ mgFrame' = <<>>
           ELSE UNCHANGED <<mgPc, mgFrame>>
        /\ UNCHANGED <<mgResult, mgErr>>
     \/ /\ mgResult' = "Err"
        /\ mgErr' = "write"
        /\ mgPc' = "done"
        /\ UNCHANGED <<written, mgLeft, mgFrame>>
  /\ UNCHANGED <<lenVars, sent, decoder, encoder, drErr, stVars, driverVars, feed, exVars, ch1, fdVars, ch2, upVars, ch3, pgVars,
                 ch4, mgRecv>>

\* stages/merge.rs start after process_stdin returned: `child.kill()` and
\* then `child.wait()`, whatever the result
StagesMergeReap ==
  /\ mgPc = "done" /\ encoder = "running"
  /\ encoder' = "killed_waited"
  /\ UNCHANGED <<errVars, lenVars, sent, decoder, stVars, driverVars, feed, exVars, ch1, fdVars, ch2,
                 upVars, ch3, pgVars, ch4, mgVars>>

\* the frames Progress hands to Merge: upscaled, with any duplicate counts
InitStagesMerge ==
  /\ COUNT = 0 /\ jobNo = 1 /\ drResult = "running" /\ threshold = 100
  /\ arguments = ArgumentsDefault /\ spawned = {} /\ video = VideoUnset
  /\ JobStart(<<>>, "eof")
  /\ processing = {} /\ shutdown_flag = FALSE
  /\ stdout = <<>> /\ frame_buffer = <<>>
  /\ stdout_len = 0 /\ frame_buffer_len = 0
  /\ sent = NothingSent /\ decoder = "running" /\ encoder = "running"
  /\ mgErr = "none" /\ drErr = "none"
  /\ exPc = "read"
  /\ \E ds \in SeqsUpTo(FedDuplicates, MaxUpFrames), end \in {"eof", "err"} :
       feed = [i \in 1..Len(ds) |->
                 OkItem(process_frame(FeedFrames(ds, 0)[i].frame))]
              \o (IF end = "err" THEN <<ErrItem("upstream")>> ELSE <<>>)

NextStagesMerge ==
  \/ MergeFeed
  \/ MergeFeedClose
  \/ StagesMergeRecv
  \/ StagesMergeWrite
  \/ StagesMergeReap

SpecStagesMerge == InitStagesMerge /\ [][NextStagesMerge]_vars

\* ================================== Extract at the level of bytes and reads
PNG_FOOTER_SIGNATURE == <<0, 0, 0, 0, 73, 69, 78, 68, 174, 66, 96, 130>>
CHUNK_SIZE == 1024 * 100
MAX_FRAME_BUFFER_SIZE == 1024 * 1024 * 10

Min(a, b) == IF a <= b THEN a ELSE b

\* the bytes of one complete PNG the decoder writes for an image: the bytes
\* before the IEND chunk (one byte here, telling the images apart) and the
\* IEND chunk
PngBytes(image) == <<IF image = "X" THEN 88 ELSE 89>> \o PNG_FOOTER_SIGNATURE

\* the decoder's whole output for a sequence of images
RECURSIVE StreamBytes(_)
StreamBytes(images) ==
  IF images = <<>> THEN <<>> ELSE PngBytes(Head(images)) \o StreamBytes(Tail(images))

\* the offsets p + 12 of the windows of 12 bytes that equal the signature
FooterEnds(data) ==
  {p + 11 : p \in {q \in 1..(Len(data) - 11) :
                     SubSeq(data, q, q + 11) = PNG_FOOTER_SIGNATURE}}

\* pipeline/extract.rs find_png_footer, `.position(..).map(|pos| pos + 12)`:
\* the end of the first signature; the empty set is None
find_png_footer(data) ==
  {k \in FooterEnds(data) : \A j \in FooterEnds(data) : k <= j}

\* stages/extract.rs find_png_footer, `.rposition(..).map(|pos| pos + 12)`:
\* the end of the last signature
stages_find_png_footer(data) ==
  {k \in FooterEnds(data) : \A j \in FooterEnds(data) : k >= j}

\* frame.rs Frame::from_bytes: the PNG decoder's result for `bytes` and, when
\* it is Ok, Frame::new.  Bytes that are one complete PNG decode to its
\* image; for a complete PNG followed by further bytes the decoder library
\* decides between the first image and an error; anything else is an error.
from_bytes(bytes, count) ==
  IF \E image \in Images : bytes = PngBytes(image)
  THEN {OkItem(FrameNew(image, count)) : image \in {i \in Images : bytes = PngBytes(i)}}
  ELSE IF \E image \in Images : Len(bytes) > 13 /\ SubSeq(bytes, 1, 13) = PngBytes(image)
  THEN {OkItem(FrameNew(image, count)) :
           image \in {i \in Images : SubSeq(bytes, 1, 13) = PngBytes(i)}}
       \cup {ErrItem("decode")}
  ELSE {ErrItem("decode")}

\* an overflow test that already fires at the limit
OverflowsAtLimit(len) == len >= MAX_FRAME_BUFFER_SIZE

\* pipeline/extract.rs process_chunk, `frame_buffer.len() > MAX_FRAME_BUFFER_SIZE`
Overflows(len) == len > MAX_FRAME_BUFFER_SIZE

\* the sizes a read into read_chunk can return while the decoder has bytes
ReadSizes == 1..Min(Min(CHUNK_SIZE, MaxRead), Len(stdout))

\* process_chunk after `frame_buffer.extend_from_slice`, with `found` the
\* result of find_png_footer on the extended buffer: a frame drained up to
\* the footer and decoded, the overflow error, or the recursive call (which
\* starts with the next read)
AfterRead(buffer, found) ==
  IF found # {}
  THEN LET index == CHOOSE k \in found : TRUE
       IN /\ frame_buffer' = SubSeq(buffer, index + 1, Len(buffer))
          /\ \E r \in from_bytes(SubSeq(buffer, 1, index), COUNT) :
               /\ exHeld' = <<r>>
               /\ COUNT' = IF r.ok THEN COUNT + 1 ELSE COUNT
          /\ exPc' = "send"
  ELSE IF Overflows(Len(buffer))
  THEN /\ frame_buffer' = buffer
       /\ exHeld' = <<ErrItem("overflow")>>
       /\ exPc' = "send"
       /\ UNCHANGED COUNT
  ELSE /\ frame_buffer' = buffer
       /\ UNCHANGED <<exHeld, exPc, COUNT>>

\* process_chunk when the decoder has no more bytes: a zero-length read
\* (Ok(None), process_stdout breaks) or a read error
ReadEnd ==
  /\ stdout = <<>>
  /\ \/ /\ exEnd = "eof"
        /\ exPc' = "done"
        /\ UNCHANGED <<ioVars, exHeld, COUNT>>
     \/ /\ exEnd = "err"
        /\ exHeld' = <<ErrItem("read")>>
        /\ exPc' = "send"
        /\ UNCHANGED <<ioVars, COUNT>>

\* pipeline/extract.rs process_stdout, one call of process_chunk up to its
\* return or to the read of its recursive call
ExtractRead ==
  /\ exPc = "read"
  /\ \/ \E size \in ReadSizes :
          /\ stdout' = SubSeq(stdout, size + 1, Len(stdout))
          /\ AfterRead(frame_buffer \o SubSeq(stdout, 1, size),
                       find_png_footer(frame_buffer \o SubSeq(stdout, 1, size)))
     \/ ReadEnd
  /\ UNCHANGED <<auxVars, processing, shutdown_flag, driverVars, feed, exStream, exEnd, exSent,
                 ch1, fdVars, ch2, upVars, ch3, pgVars, ch4, mgVars>>

\* stages/extract.rs process_stdout, one call of process_chunk up to its
\* return or to the read of its recursive call
StagesExtractRead ==
  /\ exPc = "read"
  /\ \/ \E size \in ReadSizes :
          /\ stdout' = SubSeq(stdout, size + 1, Len(stdout))
          /\ AfterRead(frame_buffer \o SubSeq(stdout, 1, size),
                       stages_find_png_footer(frame_buffer \o SubSeq(stdout, 1, size)))
     \/ ReadEnd
  /\ UNCHANGED <<auxVars, processing, shutdown_flag, driverVars, feed, exStream, exEnd, exSent,
                 ch1, fdVars, ch2, upVars, ch3, pgVars, ch4, mgVars>>

\* ---- Extract on a decoder output without any terminator, by lengths only
\* the lengths of the decoder's output: the limit, one byte more, a chunk more
JunkLengths ==
  {MAX_FRAME_BUFFER_SIZE, MAX_FRAME_BUFFER_SIZE + 1, MAX_FRAME_BUFFER_SIZE + CHUNK_SIZE}

\* pipeline/extract.rs process_stdout, one call of process_chunk up to its
\* return or to the read of its recursive call, when no window of the
\* decoder's output equals the signature (find_png_footer is None after every
\* read): only the lengths of the output left and of frame_buffer are kept
ExtractReadJunk ==
  /\ exPc = "read"
  /\ \/ /\ stdout_len > 0
        /\ \E full \in (CHUNK_SIZE - MaxShort)..CHUNK_SIZE :
             /\ stdout_len' = stdout_len - Min(full, stdout_len)
             /\ frame_buffer_len' = frame_buffer_len + Min(full, stdout_len)
             /\ IF Overflows(frame_buffer_len + Min(full, stdout_len))
                THEN exHeld' = <<ErrItem("overflow")>> /\ exPc' = "send"
                ELSE UNCHANGED <<exHeld, exPc>>
        /\ UNCHANGED <<ioVars, COUNT>>
     \/ /\ stdout_len = 0
        /\ ReadEnd
        /\ UNCHANGED lenVars
  /\ UNCHANGED <<errVars, sent, decoder, encoder, processing, shutdown_flag, driverVars, feed,
                 exStream, exEnd, exSent, ch1, fdVars, ch2, upVars, ch3, pgVars, ch4,
                 mgVars>>

\* pipeline/extract.rs execute: spawn_ffmpeg_process succeeds and the thread
\* of process_stdout starts, or it fails and `?` returns the Err to the
\* caller, dropping the sender with nothing sent
ExtractExecute ==
  /\ exPc = "spawn" /\ decoder = "unspawned"
  /\ \/ decoder' = "running" /\ exPc' = "read"
     \/ decoder' = "nospawn" /\ exPc' = "done"
  /\ UNCHANGED <<errVars, lenVars, sent, encoder, stVars, driverVars, feed, COUNT, exStream, exEnd,
                 exHeld, exSent, ch1, fdVars, ch2, upVars, ch3, pgVars, ch4, mgVars>>

\* the receiver of Extract's channel takes an item
TakeFrame ==
  /\ fdPc # "done" /\ ch1 # <<>>
  /\ ch1' = Tail(ch1)
  /\ UNCHANGED <<auxVars, stVars, driverVars, feed, exVars, fdVars, ch2, upVars, ch3, pgVars,
                 ch4, mgVars>>

\* the receiver of Extract's channel is dropped
ReceiverDrop ==
  /\ fdPc # "done"
  /\ fdPc' = "done"
  /\ UNCHANGED <<auxVars, stVars, driverVars, feed, exVars, ch1, fdPrev, fdHeld, fdExit, fdRecv,
                 fdSent, ch2, upVars, ch3, pgVars, ch4, mgVars>>

\* Extract::execute is about to be called; the decoder, once spawned, writes
\* the PNGs of `exStream`, which stays as it is in this model, and then
\* closes its stdout or fails
InitExtract ==
  /\ COUNT = 0 /\ jobNo = 1 /\ drResult = "running" /\ threshold = 100
  /\ arguments = ArgumentsDefault /\ spawned = {} /\ video = VideoUnset
  /\ feed = <<>> /\ processing = {} /\ shutdown_flag = FALSE
  /\ frame_buffer = <<>>
  /\ stdout_len = 0 /\ frame_buffer_len = 0
  /\ sent = NothingSent /\ decoder = "unspawned" /\ encoder = "running"
  /\ mgErr = "none" /\ drErr = "none"
  /\ exPc = "spawn"
  /\ \E images \in SeqsUpTo(Images, MaxPngs), end \in {"eof", "err"} :
       JobStart(images, end) /\ stdout = StreamBytes(images)

NextExtract ==
  \/ ExtractExecute
  \/ ExtractRead
  \/ ExtractReap
  \/ ExtractSend
  \/ TakeFrame
  \/ ReceiverDrop

SpecExtract == InitExtract /\ [][NextExtract]_vars

\* the decoder is about to write one of JunkLengths bytes that hold no
\* terminator, and then to close its stdout or to fail
InitExtractJunk ==
  /\ COUNT = 0 /\ jobNo = 1 /\ drResult = "running" /\ threshold = 100
  /\ arguments = ArgumentsDefault /\ spawned = {} /\ video = VideoUnset
  /\ feed = <<>> /\ processing = {} /\ shutdown_flag = FALSE
  /\ stdout = <<>> /\ frame_buffer = <<>> /\ frame_buffer_len = 0
  /\ sent = NothingSent /\ decoder = "running" /\ encoder = "running"
  /\ mgErr = "none" /\ drErr = "none"
  /\ exPc = "read"
  /\ stdout_len \in JunkLengths
  /\ \E end \in {"eof", "err"} : JobStart(<<>>, end)

NextExtractJunk ==
  \/ ExtractReadJunk
  \/ ExtractReap
  \/ ExtractSend
  \/ TakeFrame
  \/ ReceiverDrop

SpecExtractJunk == InitExtractJunk /\ [][NextExtractJunk]_vars

\* ---- Extract on a decoder output of many small PNGs, by lengths only
\* the length of each PNG of that output, a hundredth of a full read
SmallPng == CHUNK_SIZE \div 100

\* the lengths of the decoder's output: one full read, and the limit and
\* three full reads more
SmallLengths == {CHUNK_SIZE, MAX_FRAME_BUFFER_SIZE + 3 * CHUNK_SIZE}

\* pipeline/extract.rs find_png_footer on a frame_buffer that begins at the
\* start of a PNG (every drain ends at a terminator) when all PNGs are SmallPng
\* bytes long: the end of the first PNG once it is complete ({} for None)
SmallFooter(len) == IF len >= SmallPng THEN {SmallPng} ELSE {}

\* pipeline/extract.rs process_stdout, one call of process_chunk up to its
\* return or to the read of its recursive call, on that output: only the
\* lengths of the output left and of frame_buffer are kept
ExtractReadSmall ==
  /\ exPc = "read"
  /\ \/ /\ stdout_len > 0
        /\ \E full \in (CHUNK_SIZE - MaxShort)..CHUNK_SIZE :
             LET size == Min(full, stdout_len)
                 len == frame_buffer_len + size
                 found == SmallFooter(len)
             IN /\ stdout_len' = stdout_len - size
                /\ IF found # {}
                   THEN /\ \E index \in found : frame_buffer_len' = len - index
                        /\ exHeld' = <<OkItem(FrameNew("X", COUNT))>>
                        /\ COUNT' = COUNT + 1
                        /\ exPc' = "send"
                   ELSE IF Overflows(len)
                   THEN /\ frame_buffer_len' = len
                        /\ exHeld' = <<ErrItem("overflow")>>
                        /\ exPc' = "send"
                        /\ UNCHANGED COUNT
                   ELSE /\ frame_buffer_len' = len
                        /\ UNCHANGED <<exHeld, exPc, COUNT>>
        /\ UNCHANGED ioVars
     \/ /\ stdout_len = 0
        /\ ReadEnd
        /\ UNCHANGED lenVars
  /\ UNCHANGED <<errVars, sent, decoder, encoder, processing, shutdown_flag, driverVars, feed,
                 exStream, exEnd, exSent, ch1, fdVars, ch2, upVars, ch3, pgVars, ch4,
                 mgVars>>

InitExtractSmall ==
  /\ COUNT = 0 /\ jobNo = 1 /\ drResult = "running" /\ threshold = 100
  /\ arguments = ArgumentsDefault /\ spawned = {} /\ video = VideoUnset
  /\ feed = <<>> /\ processing = {} /\ shutdown_flag = FALSE
  /\ stdout = <<>> /\ frame_buffer = <<>> /\ frame_buffer_len = 0
  /\ sent = NothingSent /\ decoder = "running" /\ encoder = "running"
  /\ mgErr = "none" /\ drErr = "none"
  /\ exPc = "read"
  /\ stdout_len \in SmallLengths
  /\ \E end \in {"eof", "err"} : JobStart(<<>>, end)

NextExtractSmall ==
  \/ ExtractReadSmall
  \/ ExtractReap
  \/ ExtractSend
  \/ TakeFrame
  \/ ReceiverDrop

SpecExtractSmall == InitExtractSmall /\ [][NextExtractSmall]_vars

NextStagesExtract ==
  \/ ExtractExecute
  \/ StagesExtractRead
  \/ ExtractReap
  \/ ExtractSend
  \/ TakeFrame
  \/ ReceiverDrop

SpecStagesExtract == InitExtract /\ [][NextStagesExtract]_vars

\* ======================================== FilterDuplicates stage on its own
MaxFilterFrames == 4

\* pipeline/upscale.rs process_incoming_frames, `receiver.recv()` seen from
\* FilterDuplicates: a worker takes the item out of the channel
FilteredTake ==
  /\ WorkersAlive /\ ch2 # <<>>
  /\ ch2' = Tail(ch2)
  /\ UNCHANGED <<auxVars, stVars, driverVars, feed, exVars, ch1, fdVars, upVars, ch3,
                 pgVars, ch4, mgVars>>

\* every worker has returned: the receiver of FilterDuplicates' channel and
\* its clones are dropped
FilteredReceiverDrop ==
  /\ WorkersAlive
  /\ wPc' = [w \in Workers |-> "done"]
  /\ UNCHANGED <<auxVars, stVars, driverVars, feed, exVars, ch1, fdVars, ch2, wFrame,
                 processed_frames, next_frame_index, mutex, upIn, upOut, ch3, pgVars,
                 ch4, mgVars>>

\* FilterDuplicates::execute has been called on Extract's receiver; the
\* decoder is about to deliver up to MaxFilterFrames frames and then to
\* reach EOF or to fail
InitFilter ==
  /\ COUNT = 0 /\ jobNo = 1 /\ drResult = "running" /\ threshold = 100
  /\ arguments = ArgumentsDefault /\ spawned = {} /\ video = VideoUnset
  /\ feed = <<>> /\ processing = {} /\ shutdown_flag = FALSE
  /\ stdout = <<>> /\ frame_buffer = <<>>
  /\ stdout_len = 0 /\ frame_buffer_len = 0
  /\ sent = NothingSent /\ decoder = "running" /\ encoder = "running"
  /\ mgErr = "none" /\ drErr = "none"
  /\ exPc = "read"
  /\ \E stream \in SeqsUpTo(Images, MaxFilterFrames), end \in {"eof", "err"} :
       JobStart(stream, end)

NextFilter ==
  \/ ExtractDecode
  \/ ExtractSend
  \/ FilterRecv
  \/ FilterSend
  \/ FilteredTake
  \/ FilteredReceiverDrop

SpecFilter == InitFilter /\ [][NextFilter]_vars

\* ============================================== Video::new and the job loop
\* arguments.rs validate_model
Models == {"realcugan", "realesr-anime", "realesrgan", "realesrgan-anime"}

\* the --width / --height pairs of a run (0 for an absent option), inside
\* arguments.rs validate_resolution_and_scale's 16..7680 and 16..4320
Targets == {<<0, 0>>, <<32, 0>>, <<32, 16>>}

\* what ffprobe reports of an input: a resolution, or a field that does not
\* parse (fetch_video_metadata's Err)
Probes == {[original_width |-> 16, original_height |-> 16, readable |-> TRUE],
           [original_width |-> 32, original_height |-> 16, readable |-> TRUE],
           [original_width |-> 0, original_height |-> 0, readable |-> FALSE]}

\* f64::round of the quotient a / b of two non-negative integers, b > 0
Round(a, b) == (2 * a + b) \div (2 * b)

\* video.rs calculate_target_dimensions, with original_aspect_ratio =
\* original_width / original_height kept as the pair it is the quotient of
\* and self.scale still at Video::new's 2
calculate_target_dimensions(args, probe) ==
  IF args.width # 0 /\ args.height # 0 THEN <<args.width, args.height>>
  ELSE IF args.width # 0
    THEN <<args.width, Round(args.width * probe.original_height, probe.original_width)>>
  ELSE IF args.height # 0
    THEN <<Round(args.height * probe.original_width, probe.original_height), args.height>>
  ELSE <<probe.original_width * 2, probe.original_height * 2>>

\* video.rs adjust_for_aspect_ratio: |width/height - ow/oh| <= 0.01 keeps the
\* target, a wider target is narrowed, a taller one is shortened
adjust_for_aspect_ratio(width, height, probe) ==
  LET lhs == width * probe.original_height
      rhs == probe.original_width * height
      gap == IF lhs >= rhs THEN lhs - rhs ELSE rhs - lhs
  IN  IF 100 * gap <= height * probe.original_height THEN <<width, height>>
      ELSE IF lhs > rhs
        THEN <<Round(height * probe.original_width, probe.original_height), height>>
      ELSE <<width, Round(width * probe.original_height, probe.original_width)>>

\* the (final_width, final_height) of video.rs set_model_and_resolution
FinalResolution(args, probe) ==
  LET target == calculate_target_dimensions(args, probe)
  IN  adjust_for_aspect_ratio(target[1], target[2], probe)

\* a test that takes a final resolution equal to the multiple for larger
ExceedsOrEquals(final, probe, scale) ==
  \/ final[1] >= probe.original_width * scale
  \/ final[2] >= probe.original_height * scale

\* video.rs set_model_and_resolution, the closure given to find:
\* final_width > original_width * scale || final_height > original_height * scale
Exceeds(final, probe, scale) ==
  \/ final[1] > probe.original_width * scale
  \/ final[2] > probe.original_height * scale

\* video.rs set_model_and_resolution, the assignment of self.scale: 4 for
\* every model but realcugan and realesr-anime, and for these two one more
\* than the largest of 3, 2, 1, 0 that the final resolution exceeds the
\* original's multiple of
VideoScale(args, probe) ==
  LET final == FinalResolution(args, probe)
      found == {s \in 0..3 : Exceeds(final, probe, s)}
  IN  IF args.model # "realcugan" /\ args.model # "realesr-anime" THEN 4
      ELSE 1 + (IF found = {} THEN 0
                ELSE CHOOSE s \in found : \A r \in found : r <= s)

\* video.rs set_model: the Model variant and, for the two models that take
\* one, its scale; None for scale 1
set_model(scale, name) ==
  IF scale = 1 THEN NoModel
  ELSE IF name \in {"realcugan", "realesr-anime"} THEN [name |-> name, scale |-> scale]
  ELSE IF name \in {"realesrgan", "realesrgan-anime"} THEN [name |-> name, scale |-> 4]
  ELSE NoModel

\* model.rs Model::get_scale
get_scale(model) == model.scale

\* video.rs Video::new after fetch_video_metadata: set_model_and_resolution
\* (self.width = final_width.min(final_width * self.scale), likewise the
\* height) and set_model
VideoNew(args, probe) ==
  LET final == FinalResolution(args, probe)
      scale == VideoScale(args, probe)
  IN  [scale |-> scale,
       width |-> Min(final[1], final[1] * scale),
       height |-> Min(final[2], final[2] * scale),
       model |-> set_model(scale, args.model)]

\* a driver that skips nothing
SkipsNever(scale) == FALSE

\* pipeline/mod.rs Pipeline::execute: `if video.scale == 1`
Skips(scale) == scale = 1

\* the driver is between two turns of its loop: no stage exists
AtLoopHead == drResult = "running" /\ mgPc = "idle"

\* Pipeline::execute, a turn of the loop that ends at `Video::new(..)?`
DriverProbeFails ==
  /\ AtLoopHead /\ jobNo < Len(arguments.files)
  /\ ~arguments.files[jobNo + 1].readable
  /\ jobNo' = jobNo + 1
  /\ drResult' = "Err" /\ drErr' = "probe"
  /\ UNCHANGED <<lenVars, sent, decoder, encoder, mgErr, stVars, COUNT, threshold,
                 arguments, spawned, video, feed, exStream, exEnd, exPc, exHeld, exSent,
                 ch1,
                 fdVars, ch2, upVars, ch3, pgVars, ch4, mgVars>>

\* Pipeline::execute, a turn of the loop that ends at `continue`
DriverSkip ==
  /\ AtLoopHead /\ jobNo < Len(arguments.files)
  /\ arguments.files[jobNo + 1].readable
  /\ Skips(VideoScale(arguments, arguments.files[jobNo + 1]))
  /\ jobNo' = jobNo + 1
  /\ video' = VideoNew(arguments, arguments.files[jobNo + 1])
  /\ UNCHANGED <<lenVars, sent, decoder, encoder, errVars, stVars, COUNT, drResult,
                 threshold, arguments, spawned, feed, exStream, exEnd, exPc, exHeld,
                 exSent, ch1, fdVars, ch2, upVars, ch3, pgVars, ch4, mgVars>>

\* Pipeline::execute, a turn of the loop up to the call of process_stdin in
\* Merge::execute: the five stages are constructed, the decoder and the
\* encoder spawned.  The decoder is about to deliver one frame and then to
\* reach EOF or to fail.
DriverSpawn ==
  /\ AtLoopHead /\ jobNo < Len(arguments.files)
  /\ arguments.files[jobNo + 1].readable
  /\ ~Skips(VideoScale(arguments, arguments.files[jobNo + 1]))
  /\ jobNo' = jobNo + 1
  /\ video' = VideoNew(arguments, arguments.files[jobNo + 1])
  /\ spawned' = spawned \cup {jobNo + 1}
  /\ exStream' = <<"X">> /\ exEnd' \in {"eof", "err"}
  /\ exPc' = "read" /\ exHeld' = <<>> /\ ch1' = <<>>
  /\ fdPc' = "recv" /\ fdPrev' = <<>> /\ fdHeld' = <<>> /\ fdExit' = "none"
  /\ ch2' = <<>>
  /\ wPc' = [w \in Workers |-> "recv"] /\ wFrame' = [w \in Workers |-> <<>>]
  /\ processed_frames' = {} /\ next_frame_index' = 0 /\ mutex' = 0 /\ ch3' = <<>>
  /\ pgPc' = "recv" /\ pgHeld' = <<>> /\ ch4' = <<>>
  /\ pgPosition' = 0 /\ pgDuplicates' = 0
  /\ mgPc' = "recv" /\ mgFrame' = <<>> /\ mgLeft' = 0 /\ mgResult' = "none"
  /\ written' = <<>>
  /\ exSent' = <<>> /\ fdRecv' = 0 /\ fdSent' = <<>> /\ upIn' = <<>> /\ upOut' = <<>>
  /\ mgRecv' = <<>>
  /\ sent' = NothingSent /\ decoder' = "running" /\ encoder' = "running"
  /\ mgErr' = "none"
  /\ UNCHANGED <<lenVars, drErr, COUNT, drResult, threshold, feed, stVars, arguments>>

\* Merge::execute returning Ok after its wait for the encoder, and the loop
\* of Pipeline::execute going round
DriverMergeOk ==
  /\ drResult = "running" /\ mgPc = "done" /\ mgResult = "Ok"
  /\ mgPc' = "idle"
  /\ encoder' = MergeReaped(mgResult)
  /\ UNCHANGED <<lenVars, sent, decoder, errVars, stVars, COUNT, driverVars, feed,
                 exStream, exEnd, exPc, exHeld, exSent, ch1, fdVars, ch2, upVars, ch3,
                 pgVars, ch4, mgFrame, mgLeft, mgResult, written, mgRecv>>

\* Merge::execute returning Err and Pipeline::execute's `?` on it
DriverMergeErr == mgResult = "Err" /\ DriverReturn

\* Pipeline::execute past the last entry of arguments.files: Ok(())
DriverDone ==
  /\ AtLoopHead /\ jobNo = Len(arguments.files)
  /\ drResult' = "Ok"
  /\ UNCHANGED <<lenVars, sent, decoder, encoder, errVars, stVars, COUNT, jobNo,
                 threshold, arguments, spawned, video, feed, exStream, exEnd, exPc, exHeld,
                 exSent, ch1, fdVars, ch2, upVars, ch3, pgVars, ch4, mgVars>>

\* Pipeline::execute is entered with `args`: the loop is before its first
\* turn and no stage exists yet
Entered(args) ==
  /\ COUNT = 0 /\ jobNo = 0 /\ drResult = "running" /\ threshold = 100
  /\ arguments = args
  /\ spawned = {} /\ video = VideoUnset
  /\ feed = <<>> /\ processing = {} /\ shutdown_flag = FALSE
  /\ stdout = <<>> /\ frame_buffer = <<>>
  /\ stdout_len = 0 /\ frame_buffer_len = 0
  /\ sent = NothingSent /\ decoder = "unspawned" /\ encoder = "unspawned"
  /\ mgErr = "none" /\ drErr = "none"
  /\ exStream = <<>> /\ exEnd = "eof" /\ exPc = "done" /\ exHeld = <<>> /\ ch1 = <<>>
  /\ fdPc = "done" /\ fdPrev = <<>> /\ fdHeld = <<>> /\ fdExit = "none" /\ ch2 = <<>>
  /\ wPc = [w \in Workers |-> "done"] /\ wFrame = [w \in Workers |-> <<>>]
  /\ processed_frames = {} /\ next_frame_index = 0 /\ mutex = 0 /\ ch3 = <<>>
  /\ pgPc = "done" /\ pgHeld = <<>> /\ ch4 = <<>>
  /\ pgPosition = 0 /\ pgDuplicates = 0
  /\ mgPc = "idle" /\ mgFrame = <<>> /\ mgLeft = 0 /\ mgResult = "none"
  /\ written = <<>>
  /\ exSent = <<>> /\ fdRecv = 0 /\ fdSent = <<>> /\ upIn = <<>> /\ upOut = <<>>
  /\ mgRecv = <<>>

\* Pipeline::execute is entered: validated arguments, up to MaxJobs files
InitDriver ==
  \E model \in Models, target \in Targets, files \in SeqsUpTo(Probes, MaxJobs) :
    Entered([model |-> model, width |-> target[1], height |-> target[2],
             files |-> files])

NextDriver ==
  \/ DriverProbeFails
  \/ DriverSkip
  \/ DriverSpawn
  \/ DriverMergeOk
  \/ DriverMergeErr
  \/ DriverDone
  \/ ExtractDecode
  \/ ExtractSend
  \/ FilterRecv
  \/ FilterSend
  \/ \E w \in Workers : WorkerRecv(w)
  \/ \E w \in Workers : WorkerUpscale(w)
  \/ \E w \in Workers : WorkerDrain(w)
  \/ \E w \in Workers : WorkerSendErr(w)
  \/ ProgressRecv
  \/ ProgressSend
  \/ MergeRecv
  \/ MergeWrite

SpecDriver == InitDriver /\ [][NextDriver]_vars

\* ------------------------------------------------ Video::new on its own
MaxDim == 5

\* the resolutions of this model: multiples of 16 up to 16 * MaxDim, which
\* are inside arguments.rs validate_resolution_and_scale's ranges
Dims == {16 * k : k \in 1..MaxDim}

\* Pipeline::execute is entered with one input of any resolution in Dims and
\* any model, with --width and --height given or not
InitVideo ==
  \E model \in Models, width \in Dims \cup {0}, height \in Dims \cup {0},
     ow \in Dims, oh \in Dims :
    Entered([model |-> model, width |-> width, height |-> height,
             files |-> <<[original_width |-> ow, original_height |-> oh,
                          readable |-> TRUE]>>])

\* the first turn of the driver's loop, which computes the Video; the steps
\* of the stages it may construct are in SpecDriver
NextVideo ==
  \/ DriverSkip
  \/ DriverSpawn

SpecVideo == InitVideo /\ [][NextVideo]_vars

\* ================================================================ claims
\* the Ok frames of a sequence of channel items, in order
RECURSIVE OkFrames(_)
OkFrames(items) ==
  IF items = <<>> THEN <<>>
  ELSE (IF Head(items).ok THEN <<Head(items).frame>> ELSE <<>>) \o OkFrames(Tail(items))

StrictlyIncreasing(fs) ==
  \A i, j \in 1..Len(fs) : i < j => fs[i].index < fs[j].index

\* C1: pipeline variant of Upscale, frames entering with indices 0, then
\* previous index + 1 + previous duplicates: under every interleaving of the 4
\* workers the Ok frames sent downstream have strictly increasing indices and
\* are, one for one, the frames in the order they entered the stage (the k-th
\* frame sent is the k-th frame received, with its index and duplicates).
C1_OrderPreserved ==
  LET out == OkFrames(upOut) IN
    /\ Len(out) <= Len(upIn)
    /\ \A k \in 1..Len(out) :
         /\ out[k].index = upIn[k].index
         /\ out[k].duplicates = upIn[k].duplicates
    /\ StrictlyIncreasing(out)

\* C1's case: frames were sent in order, and a later frame that finished first
\* is parked in the map behind an earlier one that a slower worker still holds
C1_Witness ==
  /\ Len(OkFrames(upOut)) >= 1
  /\ \E g \in processed_frames :
       g.index > next_frame_index /\ \E w \in Workers :
          wPc[w] = "upscale" /\ wFrame[w][1].frame.index = next_frame_index

Repeat(x, n) == [i \in 1..n |-> x]

\* what the encoder must receive for a sequence of frames: each frame's PNG
\* duplicates + 1 times, run after run
RECURSIVE Expand(_)
Expand(fs) ==
  IF fs = <<>> THEN <<>>
  ELSE Repeat(PngOf(Head(fs)), Head(fs).duplicates + 1) \o Expand(Tail(fs))

C4_MergeRuns ==
  LET current == mgFrame
      handled == IF current = <<>> THEN mgRecv ELSE SubSeq(mgRecv, 1, Len(mgRecv) - 1)
      sofar == IF current = <<>> THEN <<>>
               ELSE Repeat(PngOf(current[1]), current[1].duplicates + 1 - mgLeft)
  IN /\ written = Expand(handled) \o sofar
     /\ current # <<>> => current[1] = mgRecv[Len(mgRecv)] /\ mgLeft >= 1
     /\ mgResult = "Ok" => current = <<>>

\* C4's case: a frame with a duplicate was written twice and the next frame
\* after it, and Merge is back at its receive
C4_Witness ==
  /\ mgPc = "recv" /\ Len(mgRecv) = 2
  /\ mgRecv[1].duplicates = 1
  /\ Len(written) = 3

\* the representative (first frame) of the run each decoded frame falls in,
\* by the duplicate predicate against the run's first frame
RECURSIVE RunReps(_, _, _)
RunReps(fs, rep, th) ==
  IF fs = <<>> THEN <<>>
  ELSE LET r == IF rep # <<>> /\ frame_is_duplicate(rep[1], Head(fs), th)
                THEN rep[1] ELSE Head(fs)
       IN <<r>> \o RunReps(Tail(fs), <<r>>, th)

\* C6: pipeline variant, first job, no stage error (Merge returned Ok): for
\* the n frames Extract delivered, the encoder's stdin holds exactly n PNGs and
\* the j-th is the upscaled first frame of the run holding the j-th decoded
\* frame.
C6_EndToEnd ==
  (jobNo = 1 /\ mgPc = "done" /\ mgResult = "Ok") =>
    LET reps == RunReps(exSent, <<>>, threshold) IN
      /\ Len(written) = Len(exSent)
      /\ \A j \in 1..Len(written) :
           written[j] = [index |-> reps[j].index, image |-> reps[j].image,
                         scaled |-> TRUE]

\* C6's case: a first job of three decoded frames with a folded duplicate ran
\* to Ok
C6_Witness ==
  /\ jobNo = 1 /\ mgPc = "done" /\ mgResult = "Ok"
  /\ Len(exSent) = 3 /\ Len(fdSent) = 2 /\ Len(written) = 3

C8_IndexFromZero ==
  exSent # <<>> => exSent[1].index = 0 /\ StrictlyIncreasing(exSent)

\* C9: every job, later ones included, delivers to its encoder as many PNGs
\* as frames were decoded for it.
C9_EachJobDelivers ==
  (mgPc = "done" /\ mgResult = "Ok") => Len(written) = Len(exSent)

\* C2: in the stages variant Upscale, the Ok frames sent downstream are in the
\* order in which the frames entered the stage (strictly increasing index),
\* under every interleaving of the workers
C2_StagesOrderPreserved == StrictlyIncreasing(OkFrames(upOut))

\* C5: the stages variant Merge, once it returned Ok, has written every frame
\* it received duplicates + 1 times (a frame with duplicates = 0 exactly once)
C5_StagesMergeRuns ==
  (mgPc = "done" /\ mgResult = "Ok") => written = Expand(mgRecv)

\* the frames of the images `images`, numbered from 0 in stream order
FramesOf(images) == [i \in 1..Len(images) |-> FrameNew(images[i], i - 1)]

\* C10: when Extract has stopped at the zero-length read with its receiver
\* still there, it has sent one frame per PNG of the stream, in stream order,
\* each decoded from the bytes of that PNG alone
C10_OneFramePerPng ==
  (exPc = "done" /\ exEnd = "eof" /\ stdout = <<>> /\ fdPc # "done")
    => exSent = FramesOf(exStream)

\* C11: pipeline variant Extract issues a read on the decoder's stdout (one
\* that returns bytes, returns zero bytes or fails) only when frame_buffer
\* holds no complete terminator, i.e. every PNG completed by the reads so far
\* has been emitted before the next read
C11_DrainBeforeRead ==
  [][(exPc = "read" /\ (stdout' # stdout \/ exPc' # "read"))
       => FooterEnds(frame_buffer) = {}]_vars

\* the bytes a step reads from the decoder's stdout
ChunkRead == SubSeq(stdout, 1, Len(stdout) - Len(stdout'))

\* the number, in stream order, of the PNG whose terminator ends at offset e
\* of the buffer frame_buffer \o ChunkRead
PngAt(e) ==
  (Len(StreamBytes(exStream)) - Len(stdout) - Len(frame_buffer) + e)
    \div Len(PngBytes("X"))

\* C12: when a read completes a terminator that began in the bytes of earlier
\* reads, Extract emits, after that read, the frame of that PNG, made of the
\* buffer's bytes up to and including the terminator, and the bytes after the
\* terminator stay in frame_buffer
C12_SplitTerminator ==
  [][\A e \in FooterEnds(frame_buffer \o ChunkRead) :
        (e - 11 <= Len(frame_buffer) /\ Len(frame_buffer) < e)
          => /\ exPc' = "send"
             /\ exHeld' = <<OkItem(FrameNew(exStream[PngAt(e)], COUNT))>>
             /\ frame_buffer' = SubSeq(frame_buffer \o ChunkRead, e + 1,
                                       Len(frame_buffer \o ChunkRead))]_vars

\* C13: on a decoder output without terminator, once frame_buffer is longer
\* than MAX_FRAME_BUFFER_SIZE Extract reads no more and hands exactly one
\* overflow Err to its channel, the only item it sends (it arrives unless the
\* receiver is gone); while frame_buffer is at most MAX_FRAME_BUFFER_SIZE
\* long no overflow Err exists
C13_Overflow ==
  /\ frame_buffer_len > MAX_FRAME_BUFFER_SIZE
       => /\ exPc \in {"send", "done"}
          /\ exPc = "send" => exHeld = <<ErrItem("overflow")>> /\ sent["extract"] = <<>>
          /\ exPc = "done" => sent["extract"] \in {<<>>, <<ErrItem("overflow")>>}
          /\ (exPc = "done" /\ fdPc # "done") => sent["extract"] = <<ErrItem("overflow")>>
  /\ frame_buffer_len <= MAX_FRAME_BUFFER_SIZE
       => /\ exHeld # <<ErrItem("overflow")>>
          /\ \A i \in 1..Len(sent["extract"]) : sent["extract"][i] # ErrItem("overflow")

\* C13's case: a read made frame_buffer longer than the limit, the overflow
\* Err was sent and Extract stopped with decoder output left unread
C13_Witness ==
  /\ exPc = "done" /\ sent["extract"] = <<ErrItem("overflow")>>
  /\ frame_buffer_len > MAX_FRAME_BUFFER_SIZE /\ stdout_len > 0

\* how many Err items a log holds
ErrCount(items) == Cardinality({i \in 1..Len(items) : ~items[i].ok})

\* C14: when Extract has ended with its receiver still there, it has sent at
\* most one Err item and nothing after it, and if the decoder could not be
\* spawned or a read of its stdout failed, it has sent exactly one
C14_OneErrPerFailure ==
  (exPc = "done" /\ fdPc # "done")
    => /\ ErrCount(sent["extract"]) <= 1
       /\ ErrCount(sent["extract"]) = 1 => ~sent["extract"][Len(sent["extract"])].ok
       /\ (decoder = "nospawn" \/ exEnd = "err") => ErrCount(sent["extract"]) = 1

\* C15: once Pipeline::execute has returned, Ok or Err, the decoder and the
\* encoder of the job have been waited on
C15_ChildrenReaped ==
  drResult # "running"
    => /\ decoder = "killed_waited"
       /\ encoder \in {"waited", "waited_killed", "killed_waited"}

\* C16: when the pipeline variant Merge has returned an Err, it had killed the
\* encoder before it waited for it
C16_KillBeforeWait == drResult = "Err" => encoder = "killed_waited"

\* C17: when Merge has returned Ok and is through with its child, the encoder
\* was waited for and never killed
C17_NoKillOnSuccess ==
  (mgPc = "done" /\ mgResult = "Ok" /\ encoder # "running") => encoder = "waited"

\* C18: every channel between two stages holds at most one item
C18_CapacityOne ==
  /\ Len(ch1) <= 1
  /\ Len(ch2) <= 1
  /\ Len(ch3) <= 1
  /\ Len(ch4) <= 1

\* a log holds at most one Err item and nothing after it
OneErrLast(items) ==
  /\ ErrCount(items) <= 1
  /\ ErrCount(items) = 1 => ~items[Len(items)].ok

\* C20: every stage, the Upscale workers taken together included, has sent at
\* most one Err item on its downstream channel and nothing after it
C20_OneErrThenSilence ==
  /\ OneErrLast(sent["extract"])
  /\ OneErrLast(sent["filter"])
  /\ OneErrLast(upOut)
  /\ OneErrLast(sent["progress"])

\* how many frames a channel or a stage's hand holds
OkCount(items) == Len(items) - ErrCount(items)

\* the frames resident in the pipeline: held by a stage, queued in a channel
\* or parked in the ordering map of Upscale
InFlight ==
  OkCount(exHeld) + OkCount(ch1) + Len(fdPrev) + OkCount(fdHeld) + OkCount(ch2)
  + Cardinality({w \in Workers : OkCount(wFrame[w]) > 0})
  + Cardinality(processed_frames)
  + OkCount(ch3) + OkCount(pgHeld) + OkCount(ch4) + OkCount(mgFrame)

\* C19: with MAX_JOBS workers the pipeline never holds more than MAX_JOBS + 5
\* frames at once
C19_BackPressure == InFlight <= MAX_JOBS + 5

\* some stage has sent an Err item on its downstream channel
ErrSent ==
  \/ \E stage \in Senders : ErrCount(sent[stage]) > 0
  \/ ErrCount(upOut) > 0

\* Merge has taken the Err item Progress sent it (the last item Progress sends)
MergeReceivedErr == ErrCount(sent["progress"]) > 0 /\ ch4 = <<>>

\* C21: once a stage has sent an Err item, the driver eventually returns Err;
\* when Merge has taken an Err item, Merge has returned an Err that carries
\* that item's Error; Merge writes nothing once its result is an Err; and the
\* driver's Err carries the Error of Merge's Err
C21_FirstErrorReturned ==
  /\ ErrSent ~> (drResult = "Err")
  /\ [](MergeReceivedErr
          => /\ mgPc = "done" /\ mgResult = "Err"
             /\ mgErr = sent["progress"][Len(sent["progress"])].err)
  /\ [][mgResult = "Err" => written' = written]_vars
  /\ [](drResult = "Err" => (mgResult = "Err" /\ drErr = mgErr /\ drErr # "none"))

\* the driver has returned the Error of an upscale failure after Merge had
\* written a frame
C21_Witness ==
  /\ drResult = "Err" /\ drErr = "upscale"
  /\ written # <<>>

\* no call of process_frame has failed and been reported downstream
NoUpscaleError == \A i \in 1..Len(upOut) : upOut[i].err # "upscale"

\* C22: in a first job, when the last worker has returned (the downstream
\* sender is closed then) with the downstream receiver still there and no
\* upscale error, the ordering map is empty and every frame a worker received
\* has been sent downstream, upscaled
C22_FlushedAtClose ==
  (~WorkersAlive /\ pgPc # "done" /\ NoUpscaleError)
    => /\ processed_frames = {}
       /\ Len(OkFrames(upOut)) = Len(upIn)
       /\ \A i \in 1..Len(upIn) :
            \E j \in 1..Len(upOut) :
              upOut[j].ok /\ upOut[j].frame = process_frame(upIn[i])

\* the upstream closed after MaxUpFrames frames, one of them with a duplicate
\* count, and every worker has returned without an Err on the way
C22_Witness ==
  /\ ~WorkersAlive /\ pgPc # "done" /\ fdPc = "done"
  /\ ErrCount(upOut) = 0
  /\ Len(upIn) = MaxUpFrames
  /\ \E i \in 1..Len(upIn) : upIn[i].duplicates > 0

\* C23: stages variant, when every worker has returned with the downstream
\* receiver still there and no Err on the way, every frame a worker received
\* has been sent downstream
C23_InFlightDelivered ==
  (~WorkersAlive /\ pgPc # "done" /\ ErrCount(upOut) = 0)
    => Len(OkFrames(upOut)) = Len(upIn)

\* C24: stages variant, once a worker has left its receive loop, every worker
\* eventually returns (the downstream sender is closed then)
C24_WorkersReturn ==
  (\E w \in Workers : wPc[w] = "done") ~> (\A w \in Workers : wPc[w] = "done")

\* every worker has returned, one of them out of the wait loop behind the
\* index of a frame whose upscale failed, which stays in `processing`
C24_Witness ==
  /\ \A w \in Workers : wPc[w] = "done"
  /\ Len(upIn) = 2 /\ OkFrames(upOut) = <<>>
  /\ upIn[1].index \in processing /\ upIn[2].index \in processing

\* every thread of the job's stages has returned
ThreadsDone ==
  /\ exPc = "done" /\ fdPc = "done" /\ ~WorkersAlive
  /\ pgPc = "done" /\ mgPc = "done"

\* the decoder's stream ended in EOF, no stage has sent an Err and no write
\* of Merge has failed
NoStageError == exEnd = "eof" /\ ~ErrSent /\ mgErr = "none"

ZeroFrames == exStream = <<>> /\ exEnd = "eof" /\ COUNT = 0

\* C26: when the decoder reaches EOF without a frame, no item is ever sent on
\* a channel, FilterDuplicates holds no frame, Merge writes nothing, and the
\* run ends with every stage thread terminated, the encoder waited for and
\* not killed, and Ok returned
C26_EmptyInput ==
  /\ [](ZeroFrames
          => /\ sent = NothingSent /\ upOut = <<>>
             /\ ch1 = <<>> /\ ch2 = <<>> /\ ch3 = <<>> /\ ch4 = <<>>
             /\ fdPrev = <<>> /\ fdHeld = <<>>
             /\ written = <<>> /\ mgResult # "Err")
  /\ ZeroFrames ~> (drResult = "Ok" /\ ThreadsDone /\ encoder = "waited")

\* the job without a frame has ended
C26_Witness ==
  /\ ZeroFrames /\ drResult = "Ok" /\ ThreadsDone
  /\ encoder = "waited" /\ written = <<>>

\* the scale Video::new computes for the j-th entry of arguments.files
JobScale(j) == VideoScale(arguments, arguments.files[j])

\* the entries of arguments.files the loop has reached whose scale is 1
SkippedJobs ==
  {j \in 1..jobNo : arguments.files[j].readable /\ JobScale(j) = 1}

\* C27: no stage is ever constructed for a job of scale 1; the turn of the
\* loop that reaches such a job spawns neither child and leaves the driver
\* running at the head of its loop; and a run that returns Ok has gone
\* through the whole list and constructed the stages of every other job
C27_ScaleOneSkipped ==
  /\ [](\A j \in SkippedJobs : j \notin spawned)
  /\ [][(jobNo' = jobNo + 1 /\ jobNo' \in SkippedJobs')
          => /\ spawned' = spawned /\ decoder' = decoder /\ encoder' = encoder
             /\ drResult' = "running" /\ mgPc' = "idle"]_vars
  /\ [](drResult = "Ok"
          => /\ jobNo = Len(arguments.files)
             /\ \A j \in 1..jobNo : j \in SkippedJobs \/ j \in spawned)

\* a run returned Ok whose first job was skipped and whose second job was
\* upscaled and encoded
C27_Witness ==
  /\ drResult = "Ok" /\ jobNo = 2
  /\ 1 \in SkippedJobs /\ spawned = {2}
  /\ encoder = "waited" /\ written # <<>>

\* the final resolution of the j-th entry of arguments.files is the
\* resolution of its source
FinalEqualsSource(j) ==
  FinalResolution(arguments, arguments.files[j])
    = <<arguments.files[j].original_width, arguments.files[j].original_height>>

\* C28: whatever the model, a job the loop has reached whose final target
\* resolution equals its source resolution has scale 1 and no stage
\* constructed for it
C28_SourceSizedSkipped ==
  \A j \in 1..jobNo :
    (arguments.files[j].readable /\ FinalEqualsSource(j))
      => (JobScale(j) = 1 /\ j \notin spawned)

\* the run-length collapse of a sequence of decoded frames: the first frame
\* stands for the longest stretch of frames after it that are each a
\* duplicate of it, and carries the stretch's length, and so on from the
\* frame that ends the stretch
RECURSIVE Collapse(_, _)
Collapse(fs, th) ==
  IF fs = <<>> THEN <<>>
  ELSE LET InRun(n) == \A k \in 2..n : frame_is_duplicate(fs[1], fs[k], th)
           n == CHOOSE m \in 1..Len(fs) :
                  InRun(m) /\ (m < Len(fs) => ~InRun(m + 1))
       IN <<[fs[1] EXCEPT !.duplicates = n - 1]>>
            \o Collapse(SubSeq(fs, n + 1, Len(fs)), th)

\* C29: the frames FilterDuplicates has emitted are the leading runs of the
\* run-length collapse of the frames it has received (first frame of each
\* run, in input order, duplicates = run length - 1); no emitted frame is a
\* duplicate of the frame emitted before it; and after a clean end of the
\* input the emitted frames are the whole collapse
C29_RunLengthCollapse ==
  LET collapsed == Collapse(SubSeq(exSent, 1, fdRecv), threshold) IN
    /\ Len(fdSent) <= Len(collapsed)
    /\ \A k \in 1..Len(fdSent) : fdSent[k] = collapsed[k]
    /\ \A k \in 1..(Len(fdSent) - 1) :
         ~frame_is_duplicate(fdSent[k], fdSent[k + 1], threshold)
    /\ (fdPc = "done" /\ fdExit = "eof") => fdSent = collapsed

\* X, X, Y, X went through: three frames emitted, the first for a run of two,
\* the third a duplicate of the first but not merged with it
C29_Witness ==
  /\ fdPc = "done" /\ fdExit = "eof" /\ fdRecv = 4
  /\ Len(fdSent) = 3 /\ fdSent[1].duplicates = 1
  /\ frame_is_duplicate(fdSent[1], fdSent[3], threshold)

\* the frames Progress has handled: received, sent on, and shown on the bar
ProgressHandled == OkFrames(sent["progress"])

\* C30: between two frames, the position Progress displays is the sum of
\* (1 + duplicates) over the frames it has handled and its tally the sum of
\* their duplicates; after a run that returned Ok the position is the number
\* of decoded frames; and the position never decreases
C30_PositionIsSum ==
  /\ [](pgPc = "recv"
          => /\ pgPosition = Weight(ProgressHandled)
             /\ pgDuplicates = Weight(ProgressHandled) - Len(ProgressHandled))
  /\ [](drResult = "Ok" => pgPosition = Len(exSent))
  /\ [][pgPosition' >= pgPosition]_vars

\* the frames of a sequence, as a set
FrameSet(fs) == {fs[k] : k \in 1..Len(fs)}

\* C31: every frame Upscale sent is a frame it received with the image
\* upscaled and index and duplicates as received; Upscale received nothing
\* but what FilterDuplicates sent; and Progress and Merge pass on and take
\* the frames of Upscale unchanged
C31_FieldsPreserved ==
  /\ \A f \in FrameSet(OkFrames(upOut)) :
       \E g \in FrameSet(upIn) :
         /\ f.index = g.index /\ f.duplicates = g.duplicates
         /\ f.image = g.image /\ f.scaled /\ ~g.scaled
  /\ FrameSet(upIn) \subseteq FrameSet(fdSent)
  /\ FrameSet(OkFrames(sent["progress"])) \subseteq FrameSet(OkFrames(upOut))
  /\ FrameSet(mgRecv) \subseteq FrameSet(OkFrames(sent["progress"]))

\* a frame that stands for a run of two went through Upscale and Progress and
\* was written by Merge
C31_Witness ==
  /\ mgPc = "done" /\ mgResult = "Ok"
  /\ Len(mgRecv) = 1 /\ mgRecv[1].duplicates = 1 /\ mgRecv[1].scaled
  /\ Len(written) = 2

\* the workers whose call of process_frame is in progress
Upscaling == {w \in Workers : wPc[w] = "upscale"}

\* C32: pipeline variant, no worker whose upscaler call is in progress holds
\* the lock of the ordering map; the lock is held only by a worker that is
\* past its insert, in send_processed_frames
C32_NoLockAcrossUpscale ==
  /\ \A w \in Upscaling : mutex # w
  /\ mutex # 0 => wPc[mutex] = "locked"

\* MAX_JOBS upscaler calls are in progress at once
C32_Witness == Upscaling = Workers /\ Cardinality(Upscaling) = MAX_JOBS

\* worker w is inside sender.send(Ok(frame)) of send_processed_frames with
\* the downstream channel full: it waits for the consumer
BlockedInSend(w) ==
  /\ wPc[w] = "locked"
  /\ MapGet(processed_frames, next_frame_index) # {}
  /\ pgPc # "done" /\ Len(ch3) = MAX_JOBS

\* C33: pipeline variant, no worker holds the lock of the ordering map while
\* it is blocked in a send on the downstream channel, and so no worker that
\* has finished its upscale waits for the lock because of the consumer
C33_NoLockAcrossSend ==
  /\ \A w \in Workers : BlockedInSend(w) => mutex # w
  /\ \A v \in Workers :
       (wPc[v] = "upscale" /\ mutex # 0) => ~BlockedInSend(mutex)

\* worker w is at a sender.send(Ok(frame)) of send_processed_frames that
\* fails: the downstream receiver has been dropped
SendFails(w) ==
  /\ wPc[w] = "locked"
  /\ MapGet(processed_frames, next_frame_index) # {}
  /\ pgPc = "done"

\* C34: pipeline variant, a worker whose send downstream fails stops taking
\* frames from upstream.  The case is taken where the failure is followed by a
\* receive for certain: an Ok frame waits in the upstream channel and no other
\* worker waits in recv for it; there the worker does not return to
\* receiver.recv(), which would hand it that frame
C34_StopAfterFailedSend ==
  [][\A w \in Workers :
       (/\ SendFails(w) /\ wPc'[w] # wPc[w]
        /\ ch2 # <<>> /\ ch2[1].ok
        /\ \A v \in Workers \ {w} : wPc[v] # "recv") => wPc'[w] # "recv"]_vars

\* the smallest of 1..4 whose multiple of the original resolution covers
\* `final` in both dimensions, and 4 when there is none
CoveringScale(final, probe) ==
  LET covers == {s \in 1..4 : /\ probe.original_width * s >= final[1]
                              /\ probe.original_height * s >= final[2]}
  IN  IF covers = {} THEN 4 ELSE CHOOSE s \in covers : \A r \in covers : s <= r

\* C35: the scale of the Video the driver computed is the covering scale of
\* its final resolution for realcugan and realesr-anime and 4 for realesrgan
\* and realesrgan-anime, and the scale its Model reports is that scale
C35_ScaleIsCovering ==
  jobNo = 1 =>
    LET probe == arguments.files[1]
        final == FinalResolution(arguments, probe)
    IN  /\ video.scale = IF arguments.model \in {"realcugan", "realesr-anime"}
                         THEN CoveringScale(final, probe) ELSE 4
        /\ video.model # NoModel => get_scale(video.model) = video.scale
        /\ video.model = NoModel <=> video.scale = 1

\* a realcugan job whose final resolution is exactly twice the original got
\* scale 2
C35_Witness ==
  /\ jobNo = 1 /\ arguments.model = "realcugan"
  /\ FinalResolution(arguments, arguments.files[1])
       = <<2 * arguments.files[1].original_width, 2 * arguments.files[1].original_height>>
  /\ arguments.width # 0
  /\ video.scale = 2 /\ video.model = [name |-> "realcugan", scale |-> 2]

\* C36: pipeline variant, whenever the lock of the ordering map is free,
\* next_frame_index is the sum of (1 + duplicates) over the frames sent
\* downstream, and every frame parked in the map has a key above it
C36_BarrierInvariant ==
  mutex = 0 =>
    /\ next_frame_index = Weight(OkFrames(upOut))
    /\ \A g \in processed_frames : g.index > next_frame_index

\* the lock is free, a frame that stands for a run of two has been sent, and
\* a later frame is parked behind a frame still being upscaled
C36_Witness ==
  /\ mutex = 0 /\ next_frame_index = 2 /\ Len(OkFrames(upOut)) = 1
  /\ processed_frames # {}
  /\ \E w \in Workers : wPc[w] = "upscale" /\ wFrame[w][1].frame.index = 2

\* C37: in the first job, the frames FilterDuplicates emits start at index 0
\* and each next index is the previous index + 1 + the previous duplicates;
\* the frame it holds back carries the index that follows the emitted ones;
\* and whenever the lock of the ordering map is free, the index the Upscale
\* barrier waits for is the index of the first emitted frame not yet sent on,
\* or, when all were sent on, the index the next emitted frame will carry
C37_BarrierKeysExist ==
  jobNo = 1 =>
    /\ fdSent # <<>> => fdSent[1].index = 0
    /\ \A k \in 1..(Len(fdSent) - 1) :
         fdSent[k + 1].index = fdSent[k].index + 1 + fdSent[k].duplicates
    /\ (fdHeld # <<>> /\ fdHeld[1].ok) => fdHeld[1].frame.index = Weight(fdSent)
    /\ (fdHeld = <<>> /\ fdPrev # <<>>) => fdPrev[1].index = Weight(fdSent)
    /\ mutex = 0 =>
         LET k == Len(OkFrames(upOut)) IN
           /\ k <= Len(fdSent)
           /\ k < Len(fdSent) => next_frame_index = fdSent[k + 1].index
           /\ k = Len(fdSent) => next_frame_index = Weight(fdSent)

\* in the first job a frame that stands for a run of two was sent on by
\* Upscale and the barrier waits for index 2, which the second emitted frame
\* carries
C37_Witness ==
  /\ jobNo = 1 /\ mutex = 0
  /\ Len(fdSent) = 2 /\ fdSent[1].duplicates = 1 /\ fdSent[2].index = 2
  /\ Len(OkFrames(upOut)) = 1 /\ next_frame_index = 2

\* C38: pipeline variant, with no upscale failure and the downstream
\* receiver in place, the Err that came from upstream is sent downstream only
\* after every frame that came before it (all of them received by then, the
\* upstream channel being first-in first-out) has been sent downstream
C38_ErrAfterFrames ==
  (NoUpscaleError /\ pgPc # "done") =>
    \A j \in 1..Len(upOut) :
      ~upOut[j].ok => Len(OkFrames(SubSeq(upOut, 1, j - 1))) = Len(upIn)


\* C39: in every state of Extract the frame buffer is at most
\* MAX_FRAME_BUFFER_SIZE + CHUNK_SIZE bytes long, whatever the decoder writes
C39_BufferBounded ==
  frame_buffer_len <= MAX_FRAME_BUFFER_SIZE + CHUNK_SIZE

====
